---- MODULE Spec2Model ----
(***************************************************************************)
(* A model of criner's orchestration core:                                 *)
(*   - the index-diff stage (engine/stage/changes.rs, fetch),              *)
(*   - the task ledger's state merge (model.rs, TaskState::merge_with),    *)
(*   - the canonical keys (persistence/keyed.rs).                          *)
(*   - the workers' claim, fail and complete on a ledger row,              *)
(*   - the db dump stage (engine/stage/db_download/mod.rs),                *)
(*   - the report stage and its write policies (engine/stage/report.rs),   *)
(*   - the SQL export of a task (export/to_sql/task.rs).                   *)
(* Each part has its own specification; a part's actions leave the other   *)
(* parts' variables unchanged.                                             *)
(***************************************************************************)
EXTENDS Integers, Sequences, FiniteSets, TLC

\* ------------------------------------------------------------------------
\* State
\* ------------------------------------------------------------------------

VARIABLES
    remote,                \* the changes the remote index has published, oldest first
    cursor,                \* the persisted last-seen reference: a position in remote
    versionsTable,         \* CrateVersionsTree: key -> CrateVersion
    cratesTable,           \* CratesTree: key -> Crate
    contextTable,          \* ContextTree: key -> Counts
    today,                 \* the calendar day of SystemTime::now()
    pc,                    \* where fetch stands
    crate_versions,        \* fetch: the changes peek_changes returned
    last_seen_git_object,  \* fetch: the reference peek_changes returned
    versions_stored,       \* fetch: iterations of the loop that are complete
    new_crate_versions,    \* fetch: counter
    new_crates,            \* fetch: counter
    result,                \* fetch: "none" while running, then "ok" or "err"
    upsert_lens,           \* history: versions.len() of every upsert's return value
    start_cursor,          \* history: cursor when the run started
    start_context,         \* history: contextTable when the run started
    start_tables,          \* history: the two row tables when the run started
    write_failed,          \* history: a row write of this run failed
    dirty,                 \* history: rows were written past the cursor by a run that did not finish
    replay,                \* history: this run follows such a run
    noop_run,              \* history: this run follows a successful run, the remote unchanged
    faulted                \* history: a run crashed or a row write failed

storeVars == <<cursor, versionsTable, cratesTable, contextTable>>

localVars == <<pc, crate_versions, last_seen_git_object, versions_stored,
               new_crate_versions, new_crates, result>>

historyVars == <<upsert_lens, start_cursor, start_context, start_tables,
                 write_failed, dirty, replay, noop_run, faulted>>

fetchVars == <<remote, today, storeVars, localVars, historyVars>>

VARIABLES
    m_a, m_b, m_c,         \* merge laws: three task states drawn as inputs
    m_pc,                  \* merge laws: which merges have been applied
    m_ab,                  \* a.merge_with(b)
    m_ab_c,                \* a.merge_with(b), then merge_with(c)
    m_bc,                  \* b.merge_with(c)
    m_a_bc                 \* a.merge_with(the merged b)

mergeVars == <<m_a, m_b, m_c, m_pc, m_ab, m_ab_c, m_bc, m_a_bc>>

VARIABLES
    task_state,            \* ledger: the state stored under the task key
    task_prev,             \* history: the state stored before the last write
    task_written,          \* history: the state the last write carried
    task_panicked,         \* ledger: the last write panicked in merge_with
    task_writes            \* ledger: writes so far

ledgerVars == <<task_state, task_prev, task_written, task_panicked, task_writes>>

VARIABLES
    w_now,                 \* workers: the wall clock
    w_startup,             \* workers: the startup time of the running process
    w_row,                 \* workers: the Task stored under the unit's key, if any
    w_pc,                  \* workers: where each worker stands with the unit
    w_last,                \* history: the last claim: the row it met and its outcome
    w_observed,            \* history: the states the row has held, in order
    w_failures,            \* history: the errors of the failed attempts, in order
    w_restarted,           \* history: the process has been restarted
    w_reclaimed            \* history: a claim has taken over a dead InProgress row

workerVars == <<w_now, w_startup, w_row, w_pc, w_last, w_observed, w_failures,
                w_restarted, w_reclaimed>>

VARIABLES
    k_name, k_version,     \* keys: the crate name and version drawn as inputs
    k_task,                \* keys: the Task drawn as input (process, version)
    k_result,              \* keys: the TaskResult drawn as input
    k_pc,                  \* keys: which keys have been built
    k_task_key,            \* keys: the buffer Task::fq_key filled
    k_result_key           \* keys: the buffer TaskResult::fq_key filled

keyVars == <<k_name, k_version, k_task, k_result, k_pc, k_task_key, k_result_key>>

VARIABLES
    d_pc,                  \* db dump: where trigger stands
    d_result,              \* db dump: "none" while trigger runs, then what it returned
    d_row,                 \* db dump: the Task stored under today's key, if any
    d_startup,             \* db dump: startup_time
    d_io,                  \* db dump: the work channel (capacity 1)
    d_tx_io,               \* db dump: trigger holds the work channel's sender
    d_res,                 \* db dump: the result channel (capacity 1)
    d_tx_result,           \* db dump: the processor holds the result channel's sender
    d_worker,              \* db dump: where the spawned processor stands
    d_sent,                \* history: the DownloadRequests sent
    d_archive,             \* db dump: the entries of the downloaded archive
    d_pos,                 \* extract_and_ingest: entries of the archive read
    d_users, d_teams,      \* extract_and_ingest: users and teams are Some
    d_parsed,              \* extract_and_ingest: the tables parsed, in order
    d_num_files_seen,      \* extract_and_ingest: num_files_seen
    d_actors,              \* extract_and_ingest: into_actors_by_id was called
    d_ingestions           \* history: calls of extract_and_ingest

dumpVars == <<d_pc, d_result, d_row, d_startup, d_io, d_tx_io, d_res, d_tx_result,
              d_worker, d_sent, d_archive, d_pos, d_users, d_teams, d_parsed,
              d_num_files_seen, d_actors, d_ingestions>>

VARIABLES
    r_num_crates,          \* report: the rows of the (filtered) crates table
    r_chunk_size,          \* report: chunk_size
    r_pc,                  \* report: where generate stands
    r_result,              \* report: "none" while generate runs, then what it returned
    r_fetched_crates,      \* report: fetched_crates
    r_chunk,               \* report: chunk, the rows it holds as offset and length
    r_abort_loop,          \* report: abort_loop
    r_cid,                 \* report: cid
    r_work,                \* report: the work channel (capacity 1) of chunk jobs
    r_tx,                  \* report: generate holds the work channel's sender
    r_workers,             \* report: what each CPU processor is doing
    r_results,             \* report: the result channel (capacity 2 * processors)
    r_agg,                 \* report: where merge_reports stands
    r_merged,              \* report: the chunk jobs whose result merge_reports got
    r_dispatched,          \* history: the chunks sent on the work channel, in order
    r_deadline,            \* report: generate was given a deadline
    r_expired,             \* report: now >= deadline
    r_git,                 \* report: the git thread: "none", "running" or "finished"
    r_git_state            \* report: generate holds git_state, a sender of the git channel

reportVars == <<r_num_crates, r_chunk_size, r_pc, r_result, r_fetched_crates, r_chunk,
                r_abort_loop, r_cid, r_work, r_tx, r_workers, r_results, r_agg,
                r_merged, r_dispatched, r_deadline, r_expired, r_git, r_git_state>>

VARIABLES
    g_repo,                \* write: what Repository::open finds at report_dir
    g_pc,                  \* write: "select" before select_callback, then "run"
    g_policy,              \* write: the callback select_callback returned
    g_tx,                  \* write: the callers hold the git channel's sender
    g_rx,                  \* write: the git thread holds the receiver
    g_chan,                \* write: the git channel
    g_seen,                \* write: the requests the git thread has counted
    g_log,                 \* history: each call of the callback, whether the git
                           \* thread was gone by then, and what the call returned
    g_accepted             \* history: the requests the git channel took, in order

gitVars == <<g_repo, g_pc, g_policy, g_tx, g_rx, g_chan, g_seen, g_log, g_accepted>>

VARIABLES
    x_key,                 \* export: key, the key of the row exported
    x_task,                \* export: self, the Task exported
    x_uid,                 \* export: uid
    x_sstm,                \* export: sstm is Some
    x_pc,                  \* export: where insert stands
    x_result,              \* export: "none" while insert runs, then what it returned
    x_crate_name,          \* export: crate_name
    x_crate_version,       \* export: crate_version
    x_i,                   \* export: the error the loop is at
    x_tasks,               \* export: the rows stm wrote to tasks
    x_task_errors          \* export: the rows sstm wrote to task_errors

exportVars == <<x_key, x_task, x_uid, x_sstm, x_pc, x_result, x_crate_name,
                x_crate_version, x_i, x_tasks, x_task_errors>>

\* the parts added to the three above
stageVars == <<workerVars, keyVars, dumpVars, reportVars, gitVars, exportVars>>

notWorker == <<fetchVars, mergeVars, ledgerVars, keyVars, dumpVars, reportVars, gitVars,
              exportVars>>

notKey == <<fetchVars, mergeVars, ledgerVars, workerVars, dumpVars, reportVars, gitVars,
              exportVars>>

notDump == <<fetchVars, mergeVars, ledgerVars, workerVars, keyVars, reportVars, gitVars,
              exportVars>>

notReport == <<fetchVars, mergeVars, ledgerVars, workerVars, keyVars, dumpVars, gitVars,
              exportVars>>

notGit == <<fetchVars, mergeVars, ledgerVars, workerVars, keyVars, dumpVars, reportVars,
              exportVars>>

notExport == <<fetchVars, mergeVars, ledgerVars, workerVars, keyVars, dumpVars, reportVars,
               gitVars>>

vars == <<fetchVars, mergeVars, ledgerVars, stageVars>>

\* ------------------------------------------------------------------------
\* Bounds of the model
\* ------------------------------------------------------------------------

\* the longest history of changes the remote index publishes
MaxRemote == 3

\* the longest error list of a TaskState drawn as an input
MaxErrLen == 2

\* ledger writes to the one task key of the ledger specification
MaxWrites == 4

\* the last tick of the wall clock
MaxTime == 3

\* the attempts of one unit that fail
MaxTimeouts == 3

\* the entries of a db dump archive
MaxEntries == 3

\* the largest crates table of the report stage
MaxCrates == 2001

\* the write requests of one run
MaxRequests == 3

\* ------------------------------------------------------------------------
\* Values
\* ------------------------------------------------------------------------

\* Option<T>: None is the empty sequence, Some(x) the sequence of x alone
None == <<>>

Some(x) == <<x>>

KEY_SEP_CHAR == ":"

Names == {"a", "b"}

\* the semver strings "0.1.0" and "0.2.0" as <<major, minor, patch>>
Versions == {<<0, 1, 0>>, <<0, 2, 0>>}

ChangeKinds == {"Added", "Yanked"}

\* the calendar days of SystemTime::now(): the day the process starts in, and
\* the day after its midnight
Days == {1, 2}

\* crates_index_diff::CrateVersion, the fields the stage reads
Changes == [name : Names, version : Versions, kind : ChangeKinds]

\* ------------------------------------------------------------------------
\* model.rs: Crate, CrateVersion, Counts, Context
\* ------------------------------------------------------------------------

CrateVersionFrom(v) ==
    [name |-> v.name, kind |-> v.kind, version |-> v.version]

\* a first-seen crate that lists its version twice
CrateFromTwice(v) == [versions |-> <<v.version, v.version>>]

CrateFrom(v) == [versions |-> <<v.version>>]

\* Counts::default(); crate_versions is a u64 and crates a u32, and both stay
\* below the number of changes the remote publishes
CountsDefault == [crate_versions |-> 0, crates |-> 0]

\* ------------------------------------------------------------------------
\* persistence/keyed.rs
\* ------------------------------------------------------------------------

key_from(name, version) == <<name, KEY_SEP_CHAR, version>>

\* the key built without the version of the change
CrateVersionKeyNoVersion(v) == key_from(v.name, <<0, 0, 0>>)

\* impl Keyed for CrateVersion
CrateVersionKey(v) == key_from(v.name, v.version)

key_from_version_buf(v) == <<v.name>>

ContextKey(day) == <<"context/", day>>

\* ------------------------------------------------------------------------
\* The persistence facade (spec 4.1): insert, upsert, update
\* ------------------------------------------------------------------------

SemverLess(x, y) ==
    \/ x[1] < y[1]
    \/ x[1] = y[1] /\ x[2] < y[2]
    \/ x[1] = y[1] /\ x[2] = y[2] /\ x[3] < y[3]

Contains(s, x) == \E i \in 1..Len(s) : s[i] = x

RECURSIVE InsertSorted(_, _)
InsertSorted(s, x) ==
    IF s = <<>> THEN <<x>>
    ELSE IF SemverLess(x, Head(s)) THEN <<x>> \o s
    ELSE <<Head(s)>> \o InsertSorted(Tail(s), x)

RECURSIVE SortVersions(_)
SortVersions(s) ==
    IF s = <<>> THEN <<>>
    ELSE InsertSorted(SortVersions(Tail(s)), Head(s))

\* CratesTree merge: the new version is merged into versions, the order is
\* recomputed; a first-seen crate is Crate::from(&CrateVersion)
CratesMerge(existing, v) ==
    IF existing = None THEN CrateFrom(v)
    ELSE [versions |->
            SortVersions(IF Contains(existing[1].versions, v.version)
                         THEN existing[1].versions
                         ELSE Append(existing[1].versions, v.version))]

Get(table, key) == IF key \in DOMAIN table THEN Some(table[key]) ELSE None

Insert(table, key, value) == (key :> value) @@ table

EmptyTable == <<>>

\* versions.insert(&key_buf, &version)
StoreVersion(table, version) == Insert(table, CrateVersionKey(version), version)

\* krate.upsert(&key_buf, &version): the record after the merge
UpsertResult(table, version) ==
    CratesMerge(Get(table, key_from_version_buf(version)), version)

StoreCrate(table, version) ==
    Insert(table, key_from_version_buf(version), UpsertResult(table, version))

\* ------------------------------------------------------------------------
\* The index-diff stage: engine/stage/changes.rs, fetch
\* ------------------------------------------------------------------------


\* the diff that starts at the last seen change instead of after it
PeekChangesInclusive(rem, cur) == SubSeq(rem, IF cur > 0 THEN cur ELSE 1, Len(rem))

\* index.peek_changes_with_options: the changes after the last seen reference,
\* and the reference of the remote head
PeekChanges(rem, cur) == SubSeq(rem, cur + 1, Len(rem))

PeekHead(rem) == Len(rem)

\* the loop that leaves before the last change
LoopOrEndEarly(i, n) == IF i + 1 < n THEN "insert" ELSE "set_last_seen"

\* the for loop over crate_versions, then set_last_seen_reference
LoopOrEnd(i, n) == IF i < n THEN "insert" ELSE "set_last_seen"

\* the row write whose error is dropped
AfterRowWriteIgnored(ok, next) == [pc |-> next, result |-> "none"]

\* the ? after versions.insert and krate.upsert
AfterRowWrite(ok, next) ==
    IF ok THEN [pc |-> next, result |-> "none"]
    ELSE [pc |-> "done", result |-> "err"]

\* the first-seen test that accepts every crate
FirstSeenAlways(krate) == Len(krate.versions) >= 1

\* krate.upsert(..)?.versions.len() == 1
FirstSeen(krate) == Len(krate.versions) = 1

\* the closure that assigns the counters instead of adding them
UpdateCountsAssign(c, ncv, nc) == [crate_versions |-> ncv, crates |-> nc]

\* the closure given to context.update_today
UpdateCounts(c, ncv, nc) ==
    [crate_versions |-> c.crate_versions + ncv, crates |-> c.crates + nc]

CountsOf(table, day) ==
    IF ContextKey(day) \in DOMAIN table THEN table[ContextKey(day)] ELSE CountsDefault

\* the registry publishes a version once, yanks a live version, and may unyank it
Live(rem, n, v) ==
    LET idx == {i \in 1..Len(rem) : rem[i].name = n /\ rem[i].version = v}
    IN  idx # {} /\ rem[CHOOSE i \in idx : \A j \in idx : j <= i].kind = "Added"

Publishable(rem, c) ==
    IF c.kind = "Added" THEN ~Live(rem, c.name, c.version)
    ELSE Live(rem, c.name, c.version)

FetchInit ==
    /\ remote = <<>>
    /\ cursor = 0
    /\ versionsTable = EmptyTable
    /\ cratesTable = EmptyTable
    /\ contextTable = EmptyTable
    /\ today = 1
    /\ pc = "idle"
    /\ crate_versions = <<>>
    /\ last_seen_git_object = 0
    /\ versions_stored = 0
    /\ new_crate_versions = 0
    /\ new_crates = 0
    /\ result = "none"
    /\ upsert_lens = <<>>
    /\ start_cursor = 0
    /\ start_context = EmptyTable
    /\ start_tables = <<EmptyTable, EmptyTable>>
    /\ write_failed = FALSE
    /\ dirty = FALSE
    /\ replay = FALSE
    /\ noop_run = FALSE
    /\ faulted = FALSE

\* the registry publishes a change; the stage reads the remote in its fetch
\* alone, so a change published during a run is one published after it
RemotePush ==
    /\ pc \in {"idle", "done"}
    /\ Len(remote) < MaxRemote
    /\ \E c \in Changes :
          /\ Publishable(remote, c)
          /\ remote' = Append(remote, c)
    /\ UNCHANGED <<today, storeVars, localVars, historyVars>>
    /\ UNCHANGED <<mergeVars, ledgerVars, stageVars>>

\* midnight passes; the stage reads the day in update_today alone, so a
\* midnight during the row writes is a midnight right before update_today
DayRollover ==
    /\ pc \in {"idle", "done", "update_today"}
    /\ today + 1 \in Days
    /\ today' = today + 1
    /\ UNCHANGED <<remote, storeVars, localVars, historyVars>>
    /\ UNCHANGED <<mergeVars, ledgerVars, stageVars>>

\* fetch, lines 21-86: open the index, fetch, peek the changes
Peek ==
    /\ pc \in {"idle", "done"}
    /\ crate_versions' = PeekChanges(remote, cursor)
    /\ last_seen_git_object' = PeekHead(remote)
    /\ versions_stored' = 0
    /\ new_crate_versions' = 0
    /\ new_crates' = 0
    /\ result' = "none"
    /\ pc' = LoopOrEnd(0, Len(crate_versions'))
    /\ upsert_lens' = <<>>
    /\ start_cursor' = cursor
    /\ start_context' = contextTable
    /\ start_tables' = <<versionsTable, cratesTable>>
    /\ write_failed' = FALSE
    /\ replay' = dirty
    /\ noop_run' = (pc = "done" /\ result = "ok" /\ PeekHead(remote) = last_seen_git_object)
    /\ UNCHANGED <<remote, today, storeVars, dirty, faulted>>
    /\ UNCHANGED <<mergeVars, ledgerVars, stageVars>>

\* fetch, lines 92-97: versions.insert(&key_buf, &version)?
InsertVersion ==
    /\ pc = "insert"
    /\ LET version == CrateVersionFrom(crate_versions[versions_stored + 1])
       IN  \E ok \in BOOLEAN :
             LET r == AfterRowWrite(ok, "upsert")
             IN  /\ versionsTable' = IF ok
                                     THEN Insert(versionsTable, CrateVersionKey(version), version)
                                     ELSE versionsTable
                 /\ new_crate_versions' = IF ok THEN new_crate_versions + 1
                                          ELSE new_crate_versions
                 /\ pc' = r.pc
                 /\ result' = r.result
                 /\ write_failed' = (write_failed \/ ~ok)
                 /\ dirty' = (dirty \/ (~ok /\ versions_stored > 0))
                 /\ faulted' = (faulted \/ ~ok)
    /\ UNCHANGED <<remote, today, cursor, cratesTable, contextTable, crate_versions,
                   last_seen_git_object, versions_stored, new_crates, upsert_lens,
                   start_cursor, start_context, start_tables, replay, noop_run>>
    /\ UNCHANGED <<mergeVars, ledgerVars, stageVars>>

\* fetch, lines 98-104: krate.upsert(&key_buf, &version)?, the new_crates test
UpsertCrate ==
    /\ pc = "upsert"
    /\ LET version == CrateVersionFrom(crate_versions[versions_stored + 1])
           post == UpsertResult(cratesTable, version)
       IN  \E ok \in BOOLEAN :
             LET r == AfterRowWrite(ok, LoopOrEnd(versions_stored + 1, Len(crate_versions)))
             IN  /\ cratesTable' = IF ok THEN StoreCrate(cratesTable, version) ELSE cratesTable
                 /\ new_crates' = IF ok /\ FirstSeen(post) THEN new_crates + 1 ELSE new_crates
                 /\ upsert_lens' = IF ok THEN Append(upsert_lens, Len(post.versions))
                                   ELSE upsert_lens
                 /\ versions_stored' = IF ok THEN versions_stored + 1 ELSE versions_stored
                 /\ pc' = r.pc
                 /\ result' = r.result
                 /\ write_failed' = (write_failed \/ ~ok)
                 /\ dirty' = (dirty \/ ~ok)
                 /\ faulted' = (faulted \/ ~ok)
    /\ UNCHANGED <<remote, today, cursor, versionsTable, contextTable, crate_versions,
                   last_seen_git_object, new_crate_versions,
                   start_cursor, start_context, start_tables, replay, noop_run>>
    /\ UNCHANGED <<mergeVars, ledgerVars, stageVars>>

\* fetch, lines 106-107: set_last_seen_reference(last_seen_git_object)?
SetLastSeen ==
    /\ pc = "set_last_seen"
    /\ cursor' = last_seen_git_object
    /\ dirty' = FALSE
    /\ pc' = "update_today"
    /\ UNCHANGED <<remote, today, versionsTable, cratesTable, contextTable,
                   crate_versions, last_seen_git_object, versions_stored,
                   new_crate_versions, new_crates, result, upsert_lens, start_cursor,
                   start_context, start_tables, write_failed, replay, noop_run, faulted>>
    /\ UNCHANGED <<mergeVars, ledgerVars, stageVars>>

\* fetch, lines 108-119: context.update_today(..)?, Ok(())
UpdateToday ==
    /\ pc = "update_today"
    /\ contextTable' = Insert(contextTable, ContextKey(today),
                              UpdateCounts(CountsOf(contextTable, today),
                                           new_crate_versions, new_crates))
    /\ pc' = "done"
    /\ result' = "ok"
    /\ UNCHANGED <<remote, today, cursor, versionsTable, cratesTable,
                   crate_versions, last_seen_git_object, versions_stored,
                   new_crate_versions, new_crates, historyVars>>
    /\ UNCHANGED <<mergeVars, ledgerVars, stageVars>>

\* the process stops inside the blocking closure; what it kept in memory is gone
Crash ==
    /\ pc \in {"insert", "upsert", "set_last_seen", "update_today"}
    /\ faulted' = TRUE
    /\ dirty' = IF pc = "update_today" THEN dirty
                ELSE (dirty \/ versions_stored > 0 \/ pc = "upsert")
    /\ pc' = "idle"
    /\ crate_versions' = <<>>
    /\ last_seen_git_object' = cursor
    /\ versions_stored' = 0
    /\ new_crate_versions' = 0
    /\ new_crates' = 0
    /\ result' = "none"
    /\ upsert_lens' = <<>>
    /\ write_failed' = FALSE
    /\ replay' = FALSE
    /\ noop_run' = FALSE
    /\ start_cursor' = cursor
    /\ start_context' = contextTable
    /\ start_tables' = <<versionsTable, cratesTable>>
    /\ UNCHANGED <<remote, today, storeVars>>
    /\ UNCHANGED <<mergeVars, ledgerVars, stageVars>>

NextFetch ==
    \/ RemotePush
    \/ Peek
    \/ InsertVersion
    \/ UpsertCrate
    \/ SetLastSeen
    \/ UpdateToday
    \/ Crash

\* ------------------------------------------------------------------------
\* model.rs: TaskState and TaskState::merge_with
\* ------------------------------------------------------------------------

Errors == {"e1", "e2"}

ErrLists(n) == UNION {[1..k -> Errors] : k \in 0..n}

NotStarted == [tag |-> "NotStarted", some |-> FALSE, errors |-> <<>>]

AttemptsWithFailure(xs) == [tag |-> "AttemptsWithFailure", some |-> FALSE, errors |-> xs]

Complete == [tag |-> "Complete", some |-> FALSE, errors |-> <<>>]

InProgress(opt) ==
    [tag |-> "InProgress", some |-> opt # None,
     errors |-> IF opt = None THEN <<>> ELSE opt[1]]

\* panic!(): merge_with does not return, *self is not assigned
Panic == [tag |-> "Panic", some |-> FALSE, errors |-> <<>>]

\* no value yet
Unset == [tag |-> "Unset", some |-> FALSE, errors |-> <<>>]

\* impl Default for TaskState
TaskStateDefault == NotStarted

TaskStates(n) ==
    {NotStarted, Complete, InProgress(None)}
        \cup {InProgress(Some(xs)) : xs \in ErrLists(n)}
        \cup {AttemptsWithFailure(xs) : xs \in ErrLists(n)}

\* the new errors put before the existing ones
merge_vec_swapped(existing, new) == new \o existing

merge_vec(existing, new) == existing \o new

\* the last arm keeping the stored state
SelfWins(self, other) == self

\* the last arm of the match: (_, other) => other.clone()
OtherWins(self, other) == other

\* a merge whose every arm is the last one
merge_with_last_arm(self, other) == other

merge_with(self, other) ==
    CASE self.tag = "AttemptsWithFailure" /\ other.tag = "AttemptsWithFailure" ->
            AttemptsWithFailure(merge_vec(self.errors, other.errors))
      [] self.tag = "AttemptsWithFailure" /\ other.tag = "InProgress" /\ ~other.some ->
            InProgress(Some(self.errors))
      [] self.tag = "AttemptsWithFailure" /\ other.tag = "InProgress" /\ other.some ->
            Panic
      [] self.tag = "InProgress" /\ self.some /\ other.tag = "AttemptsWithFailure" ->
            AttemptsWithFailure(merge_vec(self.errors, other.errors))
      [] OTHER -> OtherWins(self, other)

\* a merge on the result of an earlier merge; after a panic nothing runs
MergeAfter(self, other) ==
    IF self = Panic \/ other = Panic THEN Panic ELSE merge_with(self, other)

\* ------------------------------------------------------------------------
\* merge_with applied to drawn inputs: (a merged with b) merged with c, and
\* a merged with (b merged with c)
\* ------------------------------------------------------------------------

MergeInit ==
    /\ m_a \in TaskStates(MaxErrLen)
    /\ m_b \in TaskStates(MaxErrLen)
    /\ m_c \in TaskStates(MaxErrLen)
    /\ m_pc = "in"
    /\ m_ab = Unset
    /\ m_ab_c = Unset
    /\ m_bc = Unset
    /\ m_a_bc = Unset

MergeIdle ==
    /\ m_a = NotStarted
    /\ m_b = NotStarted
    /\ m_c = NotStarted
    /\ m_pc = "in"
    /\ m_ab = Unset
    /\ m_ab_c = Unset
    /\ m_bc = Unset
    /\ m_a_bc = Unset

MergeAB ==
    /\ m_pc = "in"
    /\ m_ab' = merge_with(m_a, m_b)
    /\ m_pc' = "ab"
    /\ UNCHANGED <<m_a, m_b, m_c, m_ab_c, m_bc, m_a_bc>>
    /\ UNCHANGED <<fetchVars, ledgerVars, stageVars>>

MergeAB_C ==
    /\ m_pc = "ab"
    /\ m_ab_c' = MergeAfter(m_ab, m_c)
    /\ m_pc' = "ab_c"
    /\ UNCHANGED <<m_a, m_b, m_c, m_ab, m_bc, m_a_bc>>
    /\ UNCHANGED <<fetchVars, ledgerVars, stageVars>>

MergeBC ==
    /\ m_pc = "ab_c"
    /\ m_bc' = merge_with(m_b, m_c)
    /\ m_pc' = "bc"
    /\ UNCHANGED <<m_a, m_b, m_c, m_ab, m_ab_c, m_a_bc>>
    /\ UNCHANGED <<fetchVars, ledgerVars, stageVars>>

MergeA_BC ==
    /\ m_pc = "bc"
    /\ m_a_bc' = MergeAfter(m_a, m_bc)
    /\ m_pc' = "a_bc"
    /\ UNCHANGED <<m_a, m_b, m_c, m_ab, m_ab_c, m_bc>>
    /\ UNCHANGED <<fetchVars, ledgerVars, stageVars>>

NextMerge ==
    \/ MergeAB
    \/ MergeAB_C
    \/ MergeBC
    \/ MergeA_BC

\* ------------------------------------------------------------------------
\* The task ledger: writes to one task key, each merged into the stored row
\* ------------------------------------------------------------------------

\* the states a write carries: a state without errors, or one with the single
\* error of the attempt that failed
WrittenStates ==
    {NotStarted, Complete, InProgress(None)}
        \cup {InProgress(Some(<<e>>)) : e \in Errors}
        \cup {AttemptsWithFailure(<<e>>) : e \in Errors}

LedgerInit ==
    /\ task_state = TaskStateDefault
    /\ task_prev = TaskStateDefault
    /\ task_written = Unset
    /\ task_panicked = FALSE
    /\ task_writes = 0

\* a write of new_state: existing.state.merge_with(&new_state)
LedgerWrite ==
    /\ task_writes < MaxWrites
    /\ ~task_panicked
    /\ \E new_state \in WrittenStates :
          LET merged == merge_with(task_state, new_state)
          IN  /\ merged # Panic
              /\ task_state' = merged
              /\ task_prev' = task_state
              /\ task_written' = new_state
              /\ task_writes' = task_writes + 1
              /\ UNCHANGED task_panicked
    /\ UNCHANGED <<fetchVars, mergeVars, stageVars>>

\* a write whose merge panics: the row stays as it was
LedgerWritePanics ==
    /\ task_writes < MaxWrites
    /\ ~task_panicked
    /\ \E new_state \in WrittenStates :
          /\ merge_with(task_state, new_state) = Panic
          /\ task_written' = new_state
          /\ task_panicked' = TRUE
          /\ task_prev' = task_state
          /\ task_writes' = task_writes + 1
          /\ UNCHANGED task_state
    /\ UNCHANGED <<fetchVars, mergeVars, stageVars>>

NextLedger ==
    \/ LedgerWrite
    \/ LedgerWritePanics

\* ------------------------------------------------------------------------
\* The ledger operations of the workers (spec 4.3): claim, complete, fail,
\* each write merged into the stored row by TaskState::merge_with
\* ------------------------------------------------------------------------

\* db_download::trigger: let max_retries_on_timeout = 80
max_retries_on_timeout == 80

Workers == {"w1", "w2"}

\* model.rs: Task, the fields the ledger decides on
Task(stored_at, state) == [stored_at |-> stored_at, state |-> state]

\* every InProgress row counted as dead
IsDeadAlways(stored_at, startup_time) == TRUE

\* TaskState::InProgress: in-progress tasks are cleaned up by checking if their
\* stored_at time is before the process startup time
IsDead(stored_at, startup_time) == stored_at < startup_time

is_complete(state) == state.tag = "Complete"

\* Task::can_be_started(startup_time), by the rules of claim
can_be_started(task, startup_time) ==
    CASE task.state.tag = "NotStarted" -> TRUE
      [] task.state.tag = "AttemptsWithFailure" ->
            Len(task.state.errors) < max_retries_on_timeout
      [] task.state.tag = "InProgress" -> IsDead(task.stored_at, startup_time)
      [] OTHER -> FALSE

ClaimOutcome(row, startup_time) ==
    IF row = None \/ can_be_started(row[1], startup_time) THEN "Proceed" ELSE "Skip"

\* the state a claim that proceeds writes: InProgress(None), or the dead
\* InProgress(prev) again
ClaimState(row) ==
    IF row # None /\ row[1].state.tag = "InProgress" THEN row[1].state
    ELSE InProgress(None)

\* a write: the stored state merged with the new one, stored_at refreshed
Store(row, new_state, now) ==
    Some(Task(now, merge_with(IF row = None THEN TaskStateDefault ELSE row[1].state,
                              new_state)))

NoClaim == [worker |-> "none", outcome |-> "none", before |-> None, startup |-> 0]

WorkerInit ==
    /\ w_now = 0
    /\ w_startup = 0
    /\ w_row = None
    /\ w_pc = [w \in Workers |-> "idle"]
    /\ w_last = NoClaim
    /\ w_observed = <<>>
    /\ w_failures = <<>>
    /\ w_restarted = FALSE
    /\ w_reclaimed = FALSE

Tick ==
    /\ w_now < MaxTime
    /\ w_now' = w_now + 1
    /\ UNCHANGED <<w_startup, w_row, w_pc, w_last, w_observed, w_failures,
                   w_restarted, w_reclaimed>>
    /\ UNCHANGED notWorker

\* claim(key, process, version, now)
Claim(w) ==
    /\ w_pc[w] = "idle"
    /\ LET outcome == ClaimOutcome(w_row, w_startup)
           stored == Store(w_row, ClaimState(w_row), w_now)
       IN  /\ w_last' = [worker |-> w, outcome |-> outcome, before |-> w_row,
                         startup |-> w_startup]
           /\ IF outcome = "Proceed"
              THEN /\ w_row' = stored
                   /\ w_observed' = Append(w_observed, stored[1].state)
                   /\ w_pc' = [w_pc EXCEPT ![w] = "working"]
                   /\ w_reclaimed' = (w_reclaimed \/
                                        (w_row # None /\ w_row[1].state.tag = "InProgress"))
              ELSE UNCHANGED <<w_row, w_observed, w_pc, w_reclaimed>>
    /\ UNCHANGED <<w_now, w_startup, w_failures, w_restarted>>
    /\ UNCHANGED notWorker

\* the attempt succeeds: complete(key)
Succeed(w) ==
    /\ w_pc[w] = "working"
    /\ LET stored == Store(w_row, Complete, w_now)
       IN  /\ w_row' = stored
           /\ w_observed' = Append(w_observed, stored[1].state)
    /\ w_pc' = [w_pc EXCEPT ![w] = "idle"]
    /\ UNCHANGED <<w_now, w_startup, w_last, w_failures, w_restarted, w_reclaimed>>
    /\ UNCHANGED notWorker

\* the attempt times out: fail(key, error); the worker will try the unit again
TimeOut(w) ==
    /\ w_pc[w] = "working"
    /\ Len(w_failures) < MaxTimeouts
    /\ Len(w_failures) < max_retries_on_timeout
    /\ \E e \in Errors :
          LET stored == Store(w_row, AttemptsWithFailure(<<e>>), w_now)
          IN  /\ w_row' = stored
              /\ w_observed' = Append(w_observed, stored[1].state)
              /\ w_failures' = Append(w_failures, e)
    /\ w_pc' = [w_pc EXCEPT ![w] = "idle"]
    /\ UNCHANGED <<w_now, w_startup, w_last, w_restarted, w_reclaimed>>
    /\ UNCHANGED notWorker

\* the process is killed and started again: its workers are gone, the rows stay
Restart ==
    /\ ~w_restarted
    /\ w_restarted' = TRUE
    /\ w_startup' = w_now
    /\ w_pc' = [w \in Workers |-> "idle"]
    /\ UNCHANGED <<w_now, w_row, w_last, w_observed, w_failures, w_reclaimed>>
    /\ UNCHANGED notWorker

NextWorker ==
    \/ Tick
    \/ \E w \in Workers : Claim(w)
    \/ \E w \in Workers : Succeed(w)
    \/ \E w \in Workers : TimeOut(w)
    \/ Restart

\* ------------------------------------------------------------------------
\* persistence/keyed.rs: the keys of Task and TaskResult. A key is the sequence
\* of the pieces pushed onto the buffer, the separator being a piece
\* ------------------------------------------------------------------------

Processes == {"download", "extract_crate"}

ProcessVersions == {"1.0.0", "1.1.0"}

ResultKinds == {"crate", "tar.gz"}

\* model.rs: TaskResult, the variant and the kind of a Download
TaskResults ==
    {[tag |-> "None", kind |-> ""], [tag |-> "ExplodedCrate", kind |-> ""]}
        \cup {[tag |-> "Download", kind |-> k] : k \in ResultKinds}

\* impl Keyed for Task
TaskKeyBuf(task) == <<task.process, KEY_SEP_CHAR, task.version>>

\* Task::fq_key
TaskFqKey(task, crate_name, crate_version) ==
    key_from(crate_name, crate_version) \o <<KEY_SEP_CHAR>> \o TaskKeyBuf(task)

\* the kind pushed without the separator
TaskResultKeyBufNoSep(r) == IF r.tag = "Download" THEN <<r.kind>> ELSE <<>>

\* impl Keyed for TaskResult
TaskResultKeyBuf(r) == IF r.tag = "Download" THEN <<KEY_SEP_CHAR, r.kind>> ELSE <<>>

\* TaskResult::fq_key
TaskResultFqKey(r, crate_name, crate_version, task) ==
    TaskFqKey(task, crate_name, crate_version) \o TaskResultKeyBuf(r)

KeyInit ==
    /\ k_name \in Names
    /\ k_version \in Versions
    /\ k_task \in [process : Processes, version : ProcessVersions]
    /\ k_result \in TaskResults
    /\ k_pc = "in"
    /\ k_task_key = <<>>
    /\ k_result_key = <<>>

KeyIdle ==
    /\ k_name = "a"
    /\ k_version = <<0, 1, 0>>
    /\ k_task = [process |-> "download", version |-> "1.0.0"]
    /\ k_result = [tag |-> "None", kind |-> ""]
    /\ k_pc = "in"
    /\ k_task_key = <<>>
    /\ k_result_key = <<>>

\* task.fq_key(crate_name, crate_version, &mut buf)
BuildTaskKey ==
    /\ k_pc = "in"
    /\ k_task_key' = TaskFqKey(k_task, k_name, k_version)
    /\ k_pc' = "task"
    /\ UNCHANGED <<k_name, k_version, k_task, k_result, k_result_key>>
    /\ UNCHANGED notKey

\* result.fq_key(crate_name, crate_version, &task, &mut buf)
BuildResultKey ==
    /\ k_pc = "task"
    /\ k_result_key' = TaskResultFqKey(k_result, k_name, k_version, k_task)
    /\ k_pc' = "result"
    /\ UNCHANGED <<k_name, k_version, k_task, k_result, k_task_key>>
    /\ UNCHANGED notKey

NextKey ==
    \/ BuildTaskKey
    \/ BuildResultKey

\* ------------------------------------------------------------------------
\* The DB-dump stage: engine/stage/db_download/mod.rs, trigger and
\* extract_and_ingest
\* ------------------------------------------------------------------------

\* extract_and_ingest: whitelist_names
whitelist_names ==
    {"crates", "crate_owners", "versions", "version_authors", "crates_categories",
     "categories", "crates_keywords", "keywords", "users", "teams"}

\* the last component of an entry's path, as stem and extension
EntryPaths ==
    { [stem |-> "users", ext |-> "csv"],
      [stem |-> "teams", ext |-> "csv"],
      [stem |-> "crates", ext |-> "csv"],
      [stem |-> "badges", ext |-> "csv"],
      [stem |-> "users", ext |-> "md"] }

Archives == UNION {[1..n -> EntryPaths] : n \in 0..MaxEntries}

\* the whitelist that matches on the stem alone
WhitelistedByStem(path) == path.stem \in whitelist_names

\* whitelist_names.iter().find(|n| p.ends_with(format!("{}.csv", n)))
Whitelisted(path) == path.ext = "csv" /\ path.stem \in whitelist_names

\* the error of the missing table dropped
RequireIgnored(users, teams) == "ok"

\* users.ok_or_else(Bug)?, then teams.ok_or_else(Bug)?
Require(users, teams) ==
    IF ~users THEN "bug_users" ELSE IF ~teams THEN "bug_teams" ELSE "ok"

\* the task key of the day's dump: crates-io-db-dump:YYYY-MM-DD
DumpTaskKey(day) == <<"crates-io-db-dump", KEY_SEP_CHAR, day>>

DownloadRequest(day) ==
    [task_key |-> DumpTaskKey(day), kind |-> "tar.gz", crate_name_and_version |-> None]

\* an AttemptsWithFailure row that has used up its retries
Exhausted == [i \in 1..max_retries_on_timeout |-> "e1"]

\* the process started at time 1: a row was stored before, at, or after it
DumpStartup == 1

DumpStoredAt == {0, 1, 2}

DumpRows ==
    {None} \cup
    {Some(Task(t, st)) :
        t \in DumpStoredAt,
        st \in {NotStarted, Complete, InProgress(None), InProgress(Some(<<"e1">>)),
                AttemptsWithFailure(<<"e1">>), AttemptsWithFailure(Exhausted)}}

\* the guard that turns a Complete row away
AdmitNoComplete(row, startup_time) ==
    IF row = None THEN TRUE ELSE can_be_started(row[1], startup_time)

\* tasks.get(&task_key)?.map(|t| t.can_be_started(startup_time)
\*     || t.state.is_complete()).unwrap_or(true)
Admit(row, startup_time) ==
    IF row = None THEN TRUE
    ELSE can_be_started(row[1], startup_time) \/ is_complete(row[1].state)

DumpIdleRest ==
    /\ d_pc = "start"
    /\ d_result = "none"
    /\ d_io = <<>>
    /\ d_tx_io = FALSE
    /\ d_res = <<>>
    /\ d_tx_result = FALSE
    /\ d_worker = "none"
    /\ d_sent = 0
    /\ d_archive = <<>>
    /\ d_pos = 0
    /\ d_users = FALSE
    /\ d_teams = FALSE
    /\ d_parsed = <<>>
    /\ d_num_files_seen = 0
    /\ d_actors = FALSE
    /\ d_ingestions = 0

DumpInit ==
    /\ d_row \in DumpRows
    /\ d_startup = DumpStartup
    /\ DumpIdleRest

DumpIdle ==
    /\ d_row = None
    /\ d_startup = 0
    /\ DumpIdleRest

\* trigger, lines 214-235: the two channels, the processor spawned on rx;
\* Agent::new(..)? may fail
SpawnProcessor ==
    /\ d_pc = "start"
    /\ \E ok \in BOOLEAN :
          IF ok
          THEN /\ d_pc' = "get"
               /\ d_tx_io' = TRUE
               /\ d_tx_result' = TRUE
               /\ d_worker' = "recv"
               /\ UNCHANGED d_result
          ELSE /\ d_pc' = "done"
               /\ d_result' = "err"
               /\ UNCHANGED <<d_tx_io, d_tx_result, d_worker>>
    /\ UNCHANGED <<d_row, d_startup, d_io, d_res, d_sent, d_archive, d_pos, d_users,
                   d_teams, d_parsed, d_num_files_seen, d_actors, d_ingestions>>
    /\ UNCHANGED notDump

\* trigger, lines 237-250: the key of the day, db.open_tasks()?, tasks.get(..)?,
\* the guard; a trigger that returns drops tx_io
GetTask ==
    /\ d_pc = "get"
    /\ \E ok \in BOOLEAN :
          IF ~ok
          THEN d_pc' = "done" /\ d_result' = "err" /\ d_tx_io' = FALSE
          ELSE IF Admit(d_row, d_startup)
          THEN d_pc' = "send" /\ UNCHANGED <<d_result, d_tx_io>>
          ELSE d_pc' = "done" /\ d_result' = "ok" /\ d_tx_io' = FALSE
    /\ UNCHANGED <<d_row, d_startup, d_io, d_res, d_tx_result, d_worker, d_sent,
                   d_archive, d_pos, d_users, d_teams, d_parsed, d_num_files_seen,
                   d_actors, d_ingestions>>
    /\ UNCHANGED notDump

\* trigger, lines 251-263: tx_io.send(DownloadRequest {..}).await
SendRequest ==
    /\ d_pc = "send"
    /\ Len(d_io) < 1
    /\ d_io' = Append(d_io, DownloadRequest(1))
    /\ d_sent' = d_sent + 1
    /\ d_pc' = "drop"
    /\ UNCHANGED <<d_result, d_row, d_startup, d_tx_io, d_res, d_tx_result, d_worker,
                   d_archive, d_pos, d_users, d_teams, d_parsed, d_num_files_seen,
                   d_actors, d_ingestions>>
    /\ UNCHANGED notDump

\* the wait begun with tx_io still held
KeepTxIo ==
    /\ d_pc = "drop"
    /\ d_pc' = "recv"
    /\ UNCHANGED <<d_result, d_row, d_startup, d_io, d_tx_io, d_res, d_tx_result,
                   d_worker, d_sent, d_archive, d_pos, d_users, d_teams, d_parsed,
                   d_num_files_seen, d_actors, d_ingestions>>
    /\ UNCHANGED notDump

\* trigger, line 264: drop(tx_io)
DropTxIo ==
    /\ d_pc = "drop"
    /\ d_tx_io' = FALSE
    /\ d_pc' = "recv"
    /\ UNCHANGED <<d_result, d_row, d_startup, d_io, d_res, d_tx_result, d_worker,
                   d_sent, d_archive, d_pos, d_users, d_teams, d_parsed,
                   d_num_files_seen, d_actors, d_ingestions>>
    /\ UNCHANGED notDump

\* trigger, line 265: rx_result.recv().await gives Some(db_file_path)
RecvPath ==
    /\ d_pc = "recv"
    /\ d_res # <<>>
    /\ d_res' = Tail(d_res)
    /\ d_ingestions' = d_ingestions + 1
    /\ d_pc' = "entries"
    /\ UNCHANGED <<d_result, d_row, d_startup, d_io, d_tx_io, d_tx_result, d_worker,
                   d_sent, d_archive, d_pos, d_users, d_teams, d_parsed,
                   d_num_files_seen, d_actors>>
    /\ UNCHANGED notDump

\* trigger, lines 265-275: rx_result.recv().await gives None, Ok(())
RecvClosed ==
    /\ d_pc = "recv"
    /\ d_res = <<>>
    /\ ~d_tx_result
    /\ d_pc' = "done"
    /\ d_result' = "ok"
    /\ UNCHANGED <<d_row, d_startup, d_io, d_tx_io, d_res, d_tx_result, d_worker,
                   d_sent, d_archive, d_pos, d_users, d_teams, d_parsed,
                   d_num_files_seen, d_actors, d_ingestions>>
    /\ UNCHANGED notDump

\* the processor takes the request off the work channel
WorkerRecv ==
    /\ d_worker = "recv"
    /\ d_io # <<>>
    /\ d_io' = Tail(d_io)
    /\ d_worker' = "busy"
    /\ UNCHANGED <<d_pc, d_result, d_row, d_startup, d_tx_io, d_res, d_tx_result,
                   d_sent, d_archive, d_pos, d_users, d_teams, d_parsed,
                   d_num_files_seen, d_actors, d_ingestions>>
    /\ UNCHANGED notDump

\* the processor is through with the unit: it has the archive and sends its
\* path on the result channel, or it has nothing to send
WorkerDone ==
    /\ d_worker = "busy"
    /\ \/ /\ Len(d_res) < 1
          /\ \E a \in Archives : d_archive' = a
          /\ d_res' = Append(d_res, "db_file_path")
       \/ UNCHANGED <<d_archive, d_res>>
    /\ d_worker' = "recv"
    /\ UNCHANGED <<d_pc, d_result, d_row, d_startup, d_io, d_tx_io, d_tx_result,
                   d_sent, d_pos, d_users, d_teams, d_parsed, d_num_files_seen,
                   d_actors, d_ingestions>>
    /\ UNCHANGED notDump

\* the processor finds the work channel closed and empty: it returns, and the
\* result channel's sender goes with it
WorkerExit ==
    /\ d_worker = "recv"
    /\ d_io = <<>>
    /\ ~d_tx_io
    /\ d_worker' = "exited"
    /\ d_tx_result' = FALSE
    /\ UNCHANGED <<d_pc, d_result, d_row, d_startup, d_io, d_tx_io, d_res, d_sent,
                   d_archive, d_pos, d_users, d_teams, d_parsed, d_num_files_seen,
                   d_actors, d_ingestions>>
    /\ UNCHANGED notDump

\* extract_and_ingest, lines 132-187: one entry of archive.entries(); entry?,
\* size()? and the parse of a whitelisted entry may fail
IngestEntry ==
    /\ d_pc = "entries"
    /\ d_pos < Len(d_archive)
    /\ LET path == d_archive[d_pos + 1]
       IN  \E ok \in BOOLEAN :
             /\ d_num_files_seen' = d_pos + 1
             /\ IF ok
                THEN /\ d_pos' = d_pos + 1
                     /\ d_users' = (d_users \/ (Whitelisted(path) /\ path.stem = "users"))
                     /\ d_teams' = (d_teams \/ (Whitelisted(path) /\ path.stem = "teams"))
                     /\ d_parsed' = IF Whitelisted(path) THEN Append(d_parsed, path.stem)
                                    ELSE d_parsed
                     /\ UNCHANGED <<d_pc, d_result>>
                ELSE /\ d_pc' = "done"
                     /\ d_result' = "err"
                     /\ UNCHANGED <<d_pos, d_users, d_teams, d_parsed>>
    /\ UNCHANGED <<d_row, d_startup, d_io, d_tx_io, d_res, d_tx_result, d_worker,
                   d_sent, d_archive, d_actors, d_ingestions>>
    /\ UNCHANGED notDump

\* extract_and_ingest, lines 188-205: users and teams are required, then
\* convert::into_actors_by_id and Ok(()); trigger passes the result on
FinishIngest ==
    /\ d_pc = "entries"
    /\ d_pos = Len(d_archive)
    /\ d_result' = Require(d_users, d_teams)
    /\ d_actors' = (Require(d_users, d_teams) = "ok")
    /\ d_pc' = "done"
    /\ UNCHANGED <<d_row, d_startup, d_io, d_tx_io, d_res, d_tx_result, d_worker,
                   d_sent, d_archive, d_pos, d_users, d_teams, d_parsed,
                   d_num_files_seen, d_ingestions>>
    /\ UNCHANGED notDump

NextDump ==
    \/ SpawnProcessor
    \/ GetTask
    \/ SendRequest
    \/ DropTxIo
    \/ RecvPath
    \/ RecvClosed
    \/ WorkerRecv
    \/ WorkerDone
    \/ WorkerExit
    \/ IngestEntry
    \/ FinishIngest

\* ------------------------------------------------------------------------
\* The report stage: engine/stage/report.rs, generate
\* ------------------------------------------------------------------------

\* generate: 500.min(num_crates)
ChunkLimit == 500

\* cpu_o_bound_processors
Processors == 2

ProcessorIds == 1..Processors

\* the table sizes tried: the small ones, those around the multiples of the
\* chunk limit, and the largest
TableSizes ==
    {n \in 0..MaxCrates :
        n <= 2 \/ n % ChunkLimit \in {0, 1, ChunkLimit - 1} \/ n = 1237
           \/ n = MaxCrates}

Min(a, b) == IF a < b THEN a ELSE b

\* let chunk_size = 500.min(num_crates)
ChunkSize(num_crates) == Min(ChunkLimit, num_crates)

\* new_key_value_query_old_to_new_filtered(.., Some((offset, limit))): the rows
\* offset + 1 .. offset + limit of the table, oldest first, as far as it has them
QueryRange(num_crates, offset, limit) ==
    [offset |-> offset,
     len |-> IF offset >= num_crates THEN 0 ELSE Min(limit, num_crates - offset)]

\* a cursor that moves by one row
AdvanceFetchedByOne(fetched_crates, len) == fetched_crates + 1

\* fetched_crates += chunk.len()
AdvanceFetched(fetched_crates, len) == fetched_crates + len

\* the loop that stops at an empty chunk alone
AbortLoopOnEmpty(len, chunk_size) == len = 0

\* chunk.len() != chunk_size as usize
AbortLoop(len, chunk_size) == len # chunk_size

EmptyChunk == [offset |-> 0, len |-> 0]

\* a processor: 0 while it waits for a job, the cid of the job it runs, -1
\* once it has returned
Idle == 0

Exited == 0 - 1

ReportIdleRest ==
    /\ r_chunk_size = 0
    /\ r_pc = "count"
    /\ r_result = "none"
    /\ r_fetched_crates = 0
    /\ r_chunk = EmptyChunk
    /\ r_abort_loop = FALSE
    /\ r_cid = 0
    /\ r_work = <<>>
    /\ r_tx = FALSE
    /\ r_workers = [w \in ProcessorIds |-> Exited]
    /\ r_results = <<>>
    /\ r_agg = "none"
    /\ r_merged = {}
    /\ r_dispatched = <<>>
    /\ r_expired = FALSE
    /\ r_git_state = FALSE

ReportInit ==
    /\ r_num_crates \in TableSizes
    /\ r_deadline \in BOOLEAN
    /\ r_git \in {"none", "running"}
    /\ ReportIdleRest

ReportIdle ==
    /\ r_num_crates = 0
    /\ r_deadline = FALSE
    /\ r_git = "none"
    /\ ReportIdleRest

\* generate returns early or panics: its senders are dropped with its locals
Return(res) ==
    /\ r_pc' = "done"
    /\ r_result' = res
    /\ r_tx' = FALSE
    /\ r_git_state' = FALSE

\* the wall clock reaches the deadline
DeadlinePasses ==
    /\ r_deadline
    /\ ~r_expired
    /\ r_pc # "done"
    /\ r_expired' = TRUE
    /\ UNCHANGED <<r_num_crates, r_chunk_size, r_pc, r_result, r_fetched_crates,
                   r_chunk, r_abort_loop, r_cid, r_work, r_tx, r_workers, r_results,
                   r_agg, r_merged, r_dispatched, r_deadline, r_git, r_git_state>>
    /\ UNCHANGED notReport

\* generate, lines 106-114: open_crates()?, count_filtered, chunk_size
Count ==
    /\ r_pc = "count"
    /\ \E ok \in BOOLEAN :
          IF ok
          THEN /\ r_chunk_size' = ChunkSize(r_num_crates)
               /\ r_pc' = "spawn"
               /\ UNCHANGED <<r_result, r_tx, r_git_state>>
          ELSE /\ Return("err")
               /\ UNCHANGED r_chunk_size
    /\ UNCHANGED <<r_num_crates, r_fetched_crates, r_chunk, r_abort_loop, r_cid,
                   r_work, r_workers, r_results, r_agg, r_merged, r_dispatched,
                   r_deadline, r_expired, r_git>>
    /\ UNCHANGED notReport

\* generate, lines 116-140: the two channels, the processors spawned, the
\* directories, git::select_callback
SpawnProcessors ==
    /\ r_pc = "spawn"
    /\ r_workers' = [w \in ProcessorIds |-> Idle]
    /\ \E ok \in BOOLEAN :
          IF ok
          THEN /\ r_tx' = TRUE
               /\ r_git_state' = (r_git = "running")
               /\ r_pc' = "spawn_merge"
               /\ UNCHANGED r_result
          ELSE Return("err")
    /\ UNCHANGED <<r_num_crates, r_chunk_size, r_fetched_crates, r_chunk,
                   r_abort_loop, r_cid, r_work, r_results, r_agg, r_merged,
                   r_dispatched, r_deadline, r_expired, r_git>>
    /\ UNCHANGED notReport

\* generate, lines 141-158: merge_progress.init(Some(num_crates / chunk_size)),
\* merge_reports spawned; the division panics when chunk_size is 0
SpawnMergeReports ==
    /\ r_pc = "spawn_merge"
    /\ IF r_chunk_size = 0
       THEN Return("panic") /\ UNCHANGED r_agg
       ELSE \E ok \in BOOLEAN :
              IF ok
              THEN /\ r_agg' = "running"
                   /\ r_pc' = "fetch"
                   /\ UNCHANGED <<r_result, r_tx, r_git_state>>
              ELSE Return("err") /\ UNCHANGED r_agg
    /\ UNCHANGED <<r_num_crates, r_chunk_size, r_fetched_crates, r_chunk,
                   r_abort_loop, r_cid, r_work, r_workers, r_results, r_merged,
                   r_dispatched, r_deadline, r_expired, r_git>>
    /\ UNCHANGED notReport

\* generate, lines 160-179: the next chunk is fetched
FetchChunk ==
    /\ r_pc = "fetch"
    /\ \E ok \in BOOLEAN :
          IF ok
          THEN LET rows == QueryRange(r_num_crates, r_fetched_crates, r_chunk_size)
               IN  /\ r_chunk' = rows
                   /\ r_fetched_crates' = AdvanceFetched(r_fetched_crates, rows.len)
                   /\ r_abort_loop' = AbortLoop(rows.len, r_chunk_size)
                   /\ r_pc' = "check"
                   /\ UNCHANGED <<r_result, r_tx, r_git_state>>
          ELSE /\ Return("err")
               /\ UNCHANGED <<r_chunk, r_fetched_crates, r_abort_loop>>
    /\ UNCHANGED <<r_num_crates, r_chunk_size, r_cid, r_work, r_workers, r_results,
                   r_agg, r_merged, r_dispatched, r_deadline, r_expired, r_git>>
    /\ UNCHANGED notReport

\* generate, lines 181-182: cid += 1; check(deadline.clone())?
CheckDeadline ==
    /\ r_pc = "check"
    /\ r_cid' = r_cid + 1
    /\ IF r_expired
       THEN Return("deadline_exceeded")
       ELSE r_pc' = "send" /\ UNCHANGED <<r_result, r_tx, r_git_state>>
    /\ UNCHANGED <<r_num_crates, r_chunk_size, r_fetched_crates, r_chunk,
                   r_abort_loop, r_work, r_workers, r_results, r_agg, r_merged,
                   r_dispatched, r_deadline, r_expired, r_git>>
    /\ UNCHANGED notReport

\* a send that does not wait for room in the work channel
SendChunkNoWait ==
    /\ r_pc = "send"
    /\ r_work' = Append(r_work, r_cid)
    /\ r_dispatched' = Append(r_dispatched, r_chunk)
    /\ r_chunk' = EmptyChunk
    /\ r_pc' = IF r_abort_loop THEN "drop" ELSE "fetch"
    /\ UNCHANGED <<r_num_crates, r_chunk_size, r_result, r_fetched_crates,
                   r_abort_loop, r_cid, r_tx, r_workers, r_results, r_agg, r_merged,
                   r_deadline, r_expired, r_git, r_git_state>>
    /\ UNCHANGED notReport

\* generate, lines 184-203: tx.send(write_files(.., chunk, ..)).await, a fresh
\* chunk, and the end of the loop when abort_loop is set
SendChunk ==
    /\ r_pc = "send"
    /\ Len(r_work) < 1
    /\ r_work' = Append(r_work, r_cid)
    /\ r_dispatched' = Append(r_dispatched, r_chunk)
    /\ r_chunk' = EmptyChunk
    /\ r_pc' = IF r_abort_loop THEN "drop" ELSE "fetch"
    /\ UNCHANGED <<r_num_crates, r_chunk_size, r_result, r_fetched_crates,
                   r_abort_loop, r_cid, r_tx, r_workers, r_results, r_agg, r_merged,
                   r_deadline, r_expired, r_git, r_git_state>>
    /\ UNCHANGED notReport

\* the work sender dropped and git_state kept to the end of generate
DropWorkSenderOnly ==
    /\ r_pc = "drop"
    /\ r_tx' = FALSE
    /\ r_pc' = "await_merge"
    /\ UNCHANGED <<r_num_crates, r_chunk_size, r_result, r_fetched_crates, r_chunk,
                   r_abort_loop, r_cid, r_work, r_workers, r_results, r_agg, r_merged,
                   r_dispatched, r_deadline, r_expired, r_git, r_git_state>>
    /\ UNCHANGED notReport

\* generate, lines 204-206: drop(git_state); drop(tx)
DropSenders ==
    /\ r_pc = "drop"
    /\ r_git_state' = FALSE
    /\ r_tx' = FALSE
    /\ r_pc' = "await_merge"
    /\ UNCHANGED <<r_num_crates, r_chunk_size, r_result, r_fetched_crates, r_chunk,
                   r_abort_loop, r_cid, r_work, r_workers, r_results, r_agg, r_merged,
                   r_dispatched, r_deadline, r_expired, r_git>>
    /\ UNCHANGED notReport

\* generate, lines 207-208: merge_reports.await
AwaitMergeReports ==
    /\ r_pc = "await_merge"
    /\ r_agg = "done"
    /\ r_pc' = "join"
    /\ UNCHANGED <<r_num_crates, r_chunk_size, r_result, r_fetched_crates, r_chunk,
                   r_abort_loop, r_cid, r_work, r_tx, r_workers, r_results, r_agg,
                   r_merged, r_dispatched, r_deadline, r_expired, r_git, r_git_state>>
    /\ UNCHANGED notReport

\* generate, lines 210-216: handle.join() when there is a git thread, Ok(())
JoinGit ==
    /\ r_pc = "join"
    /\ r_git \in {"none", "finished"}
    /\ r_pc' = "done"
    /\ r_result' = "ok"
    /\ UNCHANGED <<r_num_crates, r_chunk_size, r_fetched_crates, r_chunk,
                   r_abort_loop, r_cid, r_work, r_tx, r_workers, r_results, r_agg,
                   r_merged, r_dispatched, r_deadline, r_expired, r_git, r_git_state>>
    /\ UNCHANGED notReport

\* work::simple::processor: a job is taken off the work channel
ProcessorRecv(w) ==
    /\ r_workers[w] = Idle
    /\ r_work # <<>>
    /\ r_workers' = [r_workers EXCEPT ![w] = Head(r_work)]
    /\ r_work' = Tail(r_work)
    /\ UNCHANGED <<r_num_crates, r_chunk_size, r_pc, r_result, r_fetched_crates,
                   r_chunk, r_abort_loop, r_cid, r_tx, r_results, r_agg, r_merged,
                   r_dispatched, r_deadline, r_expired, r_git, r_git_state>>
    /\ UNCHANGED notReport

\* work::simple::processor: the job is awaited and its value sent on the
\* result channel
ProcessorSend(w) ==
    /\ r_workers[w] \notin {Idle, Exited}
    /\ Len(r_results) < 2 * Processors
    /\ r_results' = Append(r_results, r_workers[w])
    /\ r_workers' = [r_workers EXCEPT ![w] = Idle]
    /\ UNCHANGED <<r_num_crates, r_chunk_size, r_pc, r_result, r_fetched_crates,
                   r_chunk, r_abort_loop, r_cid, r_work, r_tx, r_agg, r_merged,
                   r_dispatched, r_deadline, r_expired, r_git, r_git_state>>
    /\ UNCHANGED notReport

\* work::simple::processor: the work channel is closed and empty
ProcessorExit(w) ==
    /\ r_workers[w] = Idle
    /\ r_work = <<>>
    /\ ~r_tx
    /\ r_pc \notin {"count", "spawn"}
    /\ r_workers' = [r_workers EXCEPT ![w] = Exited]
    /\ UNCHANGED <<r_num_crates, r_chunk_size, r_pc, r_result, r_fetched_crates,
                   r_chunk, r_abort_loop, r_cid, r_work, r_tx, r_results, r_agg,
                   r_merged, r_dispatched, r_deadline, r_expired, r_git, r_git_state>>
    /\ UNCHANGED notReport

\* merge_reports: a result is received
MergeRecv ==
    /\ r_agg = "running"
    /\ r_results # <<>>
    /\ r_merged' = r_merged \cup {Head(r_results)}
    /\ r_results' = Tail(r_results)
    /\ UNCHANGED <<r_num_crates, r_chunk_size, r_pc, r_result, r_fetched_crates,
                   r_chunk, r_abort_loop, r_cid, r_work, r_tx, r_workers, r_agg,
                   r_dispatched, r_deadline, r_expired, r_git, r_git_state>>
    /\ UNCHANGED notReport

\* merge_reports: the result channel is closed and empty, the summary is written
MergeDone ==
    /\ r_agg = "running"
    /\ r_results = <<>>
    /\ \A w \in ProcessorIds : r_workers[w] = Exited
    /\ r_agg' = "done"
    /\ UNCHANGED <<r_num_crates, r_chunk_size, r_pc, r_result, r_fetched_crates,
                   r_chunk, r_abort_loop, r_cid, r_work, r_tx, r_workers, r_results,
                   r_merged, r_dispatched, r_deadline, r_expired, r_git, r_git_state>>
    /\ UNCHANGED notReport

\* select_callback, lines 34-46: rx.iter() ends once every sender of the git
\* channel is dropped: git_state of generate, the clones the chunk jobs hold
\* and the clone merge_reports holds
GitThreadEnds ==
    /\ r_git = "running"
    /\ r_pc \notin {"count", "spawn"}
    /\ ~r_git_state
    /\ r_work = <<>>
    /\ \A w \in ProcessorIds : r_workers[w] \in {Idle, Exited}
    /\ r_agg \in {"none", "done"}
    /\ r_git' = "finished"
    /\ UNCHANGED <<r_num_crates, r_chunk_size, r_pc, r_result, r_fetched_crates,
                   r_chunk, r_abort_loop, r_cid, r_work, r_tx, r_workers, r_results,
                   r_agg, r_merged, r_dispatched, r_deadline, r_expired, r_git_state>>
    /\ UNCHANGED notReport

NextReport ==
    \/ DeadlinePasses
    \/ Count
    \/ SpawnProcessors
    \/ SpawnMergeReports
    \/ FetchChunk
    \/ CheckDeadline
    \/ SendChunk
    \/ DropSenders
    \/ AwaitMergeReports
    \/ JoinGit
    \/ \E w \in ProcessorIds : ProcessorRecv(w)
    \/ \E w \in ProcessorIds : ProcessorSend(w)
    \/ \E w \in ProcessorIds : ProcessorExit(w)
    \/ MergeRecv
    \/ MergeDone
    \/ GitThreadEnds

\* ------------------------------------------------------------------------
\* The write policies: engine/stage/report.rs, mod git
\* ------------------------------------------------------------------------

\* WriteRequest { path, content }
WriteRequests == [path : {"p1", "p2"}, content : {"c1", "c2"}]

\* WriteInstruction::DoWrite(req)
DoWrite(req) == [tag |-> "DoWrite", req |-> Some(req)]

\* WriteInstruction::Skip
Skip == [tag |-> "Skip", req |-> None]

\* Err(Error::Message("Could not send git request"))
CouldNotSend == [tag |-> "Message", req |-> None]

\* flume Sender::send: the channel takes the value, or every receiver is gone
\* and the value comes back as an error
Send(chan, rx, req) ==
    IF rx THEN [ok |-> TRUE, chan |-> Append(chan, req)]
    ELSE [ok |-> FALSE, chan |-> chan]

\* not_available
not_available(req, chan, rx) == [chan |-> chan, ret |-> DoWrite(req)]

\* repo_with_working_dir
repo_with_working_dir(req, chan, rx) ==
    LET sent == Send(chan, rx, req)
    IN  [chan |-> sent.chan, ret |-> IF sent.ok THEN DoWrite(req) ELSE CouldNotSend]

\* a bare-repo policy that does not look at what send returned
repo_bare_unchecked(req, chan, rx) ==
    [chan |-> Send(chan, rx, req).chan, ret |-> Skip]

\* repo_bare
repo_bare(req, chan, rx) ==
    LET sent == Send(chan, rx, req)
    IN  [chan |-> sent.chan, ret |-> IF sent.ok THEN Skip ELSE CouldNotSend]

\* the callback called through the function pointer select_callback returned
WriteCallback(policy, req, chan, rx) ==
    CASE policy = "not_available" -> not_available(req, chan, rx)
      [] policy = "repo_with_working_dir" -> repo_with_working_dir(req, chan, rx)
      [] policy = "repo_bare" -> repo_bare(req, chan, rx)

GitIdleRest ==
    /\ g_pc = "select"
    /\ g_policy = "none"
    /\ g_tx = FALSE
    /\ g_rx = FALSE
    /\ g_chan = <<>>
    /\ g_seen = 0
    /\ g_log = <<>>
    /\ g_accepted = <<>>

GitInit ==
    /\ g_repo \in {"none", "bare", "working_dir"}
    /\ GitIdleRest

GitIdle ==
    /\ g_repo = "none"
    /\ GitIdleRest

\* select_callback
SelectCallback ==
    /\ g_pc = "select"
    /\ g_pc' = "run"
    /\ g_policy' = CASE g_repo = "none" -> "not_available"
                     [] g_repo = "bare" -> "repo_bare"
                     [] g_repo = "working_dir" -> "repo_with_working_dir"
    /\ g_tx' = (g_repo # "none")
    /\ g_rx' = (g_repo # "none")
    /\ UNCHANGED <<g_repo, g_chan, g_seen, g_log, g_accepted>>
    /\ UNCHANGED notGit

\* a report job calls the callback with a request; a send on a full channel
\* waits
Write(req) ==
    /\ g_pc = "run"
    /\ g_policy = "not_available" \/ g_tx
    /\ Len(g_log) < MaxRequests
    /\ g_policy = "not_available" \/ ~g_rx \/ Len(g_chan) < Processors
    /\ LET out == WriteCallback(g_policy, req, g_chan, g_rx)
       IN  /\ g_chan' = out.chan
           /\ g_accepted' = g_accepted \o SubSeq(out.chan, Len(g_chan) + 1, Len(out.chan))
           /\ g_log' = Append(g_log, [req |-> req, gone |-> ~g_rx, ret |-> out.ret])
    /\ UNCHANGED <<g_repo, g_pc, g_policy, g_tx, g_rx, g_seen>>
    /\ UNCHANGED notGit

\* the git thread: the next request of rx.iter(), progress.set(req_id + 1)
GitRecv ==
    /\ g_rx
    /\ g_chan # <<>>
    /\ g_chan' = Tail(g_chan)
    /\ g_seen' = g_seen + 1
    /\ UNCHANGED <<g_repo, g_pc, g_policy, g_tx, g_rx, g_log, g_accepted>>
    /\ UNCHANGED notGit

\* every sender is dropped
DropGitSenders ==
    /\ g_pc = "run"
    /\ g_tx
    /\ g_tx' = FALSE
    /\ UNCHANGED <<g_repo, g_pc, g_policy, g_rx, g_chan, g_seen, g_log, g_accepted>>
    /\ UNCHANGED notGit

\* the git thread: rx.iter() ends, the channel being closed and empty
GitThreadReturns ==
    /\ g_pc = "run"
    /\ g_rx
    /\ ~g_tx
    /\ g_chan = <<>>
    /\ g_rx' = FALSE
    /\ UNCHANGED <<g_repo, g_pc, g_policy, g_tx, g_chan, g_seen, g_log, g_accepted>>
    /\ UNCHANGED notGit

\* the git thread is gone while senders live: its closure unwound, the
\* receiver and what the channel held are dropped
GitThreadGone ==
    /\ g_pc = "run"
    /\ g_rx
    /\ g_tx
    /\ g_rx' = FALSE
    /\ g_chan' = <<>>
    /\ UNCHANGED <<g_repo, g_pc, g_policy, g_tx, g_seen, g_log, g_accepted>>
    /\ UNCHANGED notGit

NextGit ==
    \/ SelectCallback
    \/ \E req \in WriteRequests : Write(req)
    \/ GitRecv
    \/ DropGitSenders
    \/ GitThreadReturns
    \/ GitThreadGone

\* ------------------------------------------------------------------------
\* The SQL export of a task: export/to_sql/task.rs, Task::insert
\* ------------------------------------------------------------------------

\* a crate version as the text a key holds
ExportVersion == "0.1.0"

\* the date of a dump as the text a key holds
ExportDay == "2020-01-01"

\* the tasks of the source database
ExportTasks ==
    [stored_at : {1}, process : Processes, version : ProcessVersions,
     state : TaskStates(MaxErrLen)]

\* a key of three components: crate name, crate version, process
ThreePartKey(task, crate_name, crate_version) ==
    key_from(crate_name, crate_version) \o <<KEY_SEP_CHAR, task.process>>

\* the keys a task is stored under: Task::fq_key, the key of the db dump
\* task, and the key of three components that insert takes apart
ExportKeys(task) ==
    {TaskFqKey(task, "a", ExportVersion), DumpTaskKey(ExportDay),
     ThreePartKey(task, "a", ExportVersion)}

RECURSIVE Split(_)
\* key.split(KEY_SEP_CHAR): the pieces between the separators, one more than
\* there are separators
Split(key) ==
    IF key = <<>> THEN << <<>> >>
    ELSE LET rest == Split(Tail(key))
         IN  IF Head(key) = KEY_SEP_CHAR
             THEN << <<>> >> \o rest
             ELSE << <<Head(key)>> \o Head(rest) >> \o Tail(rest)

\* the match that gives the state column
StateColumn(state) ==
    CASE state.tag = "NotStarted" -> "NotStarted"
      [] state.tag = "Complete" -> "Complete"
      [] state.tag = "InProgress" -> "InProgress"
      [] state.tag = "AttemptsWithFailure" -> "AttemptsWithFailure"

\* the match InProgress(Some(errors)) | AttemptsWithFailure(errors)
ErrorsToInsert(state) ==
    IF state.tag = "AttemptsWithFailure" \/ (state.tag = "InProgress" /\ state.some)
    THEN Some(state.errors)
    ELSE None

ExportIdleRest ==
    /\ x_uid = 1
    /\ x_pc = "parse"
    /\ x_result = "none"
    /\ x_crate_name = <<>>
    /\ x_crate_version = <<>>
    /\ x_i = 0
    /\ x_tasks = <<>>
    /\ x_task_errors = <<>>

ExportInit ==
    /\ x_task \in ExportTasks
    /\ x_key \in ExportKeys(x_task)
    /\ x_sstm \in BOOLEAN
    /\ ExportIdleRest

ExportIdle ==
    /\ x_task = [stored_at |-> 1, process |-> "download", version |-> "1.0.0",
                 state |-> NotStarted]
    /\ x_key = <<>>
    /\ x_sstm = FALSE
    /\ ExportIdleRest

\* insert, lines 49-53: the key is split, three tokens are unwrapped, a fourth
\* is asserted not to be there
ParseKey ==
    /\ x_pc = "parse"
    /\ LET tokens == Split(x_key)
       IN  IF Len(tokens) < 3 \/ Len(tokens) > 3
           THEN /\ x_pc' = "done"
                /\ x_result' = "panic"
                /\ UNCHANGED <<x_crate_name, x_crate_version>>
           ELSE /\ x_pc' = "execute"
                /\ x_crate_name' = tokens[1]
                /\ x_crate_version' = tokens[2]
                /\ UNCHANGED x_result
    /\ UNCHANGED <<x_key, x_task, x_uid, x_sstm, x_i, x_tasks, x_task_errors>>
    /\ UNCHANGED notExport

\* insert, lines 55-77: stm.execute(params![..])?
ExecuteStatement ==
    /\ x_pc = "execute"
    /\ \E ok \in BOOLEAN :
          IF ok
          THEN /\ x_tasks' = Append(x_tasks,
                      [id |-> x_uid, crate_name |-> x_crate_name,
                       crate_version |-> x_crate_version,
                       process |-> x_task.process, version |-> x_task.version,
                       stored_at |-> x_task.stored_at,
                       state |-> StateColumn(x_task.state)])
               /\ x_pc' = "match"
               /\ UNCHANGED x_result
          ELSE /\ x_pc' = "done"
               /\ x_result' = "sql_error"
               /\ UNCHANGED x_tasks
    /\ UNCHANGED <<x_key, x_task, x_uid, x_sstm, x_crate_name, x_crate_version, x_i,
                   x_task_errors>>
    /\ UNCHANGED notExport

\* insert, lines 78-80 and 85-87: the match on state, sstm.ok_or_else(Bug)?,
\* Ok(1) when the state holds no errors
MatchState ==
    /\ x_pc = "match"
    /\ IF ErrorsToInsert(x_task.state) = None
       THEN x_pc' = "done" /\ x_result' = "ok" /\ UNCHANGED x_i
       ELSE IF x_sstm
            THEN x_pc' = "errors" /\ x_i' = 1 /\ UNCHANGED x_result
            ELSE x_pc' = "done" /\ x_result' = "bug" /\ UNCHANGED x_i
    /\ UNCHANGED <<x_key, x_task, x_uid, x_sstm, x_crate_name, x_crate_version,
                   x_tasks, x_task_errors>>
    /\ UNCHANGED notExport

\* insert, lines 81-83: sstm.execute(params![uid, error])? for the next error
InsertError ==
    /\ x_pc = "errors"
    /\ x_i <= Len(x_task.state.errors)
    /\ \E ok \in BOOLEAN :
          IF ok
          THEN /\ x_task_errors' = Append(x_task_errors,
                      [parent_task |-> x_uid, error |-> x_task.state.errors[x_i]])
               /\ x_i' = x_i + 1
               /\ UNCHANGED <<x_pc, x_result>>
          ELSE /\ x_pc' = "done"
               /\ x_result' = "sql_error"
               /\ UNCHANGED <<x_i, x_task_errors>>
    /\ UNCHANGED <<x_key, x_task, x_uid, x_sstm, x_crate_name, x_crate_version, x_tasks>>
    /\ UNCHANGED notExport

\* insert, line 87: Ok(1) after the last error
ReturnInserted ==
    /\ x_pc = "errors"
    /\ x_i > Len(x_task.state.errors)
    /\ x_pc' = "done"
    /\ x_result' = "ok"
    /\ UNCHANGED <<x_key, x_task, x_uid, x_sstm, x_crate_name, x_crate_version, x_i,
                   x_tasks, x_task_errors>>
    /\ UNCHANGED notExport

NextExport ==
    \/ ParseKey
    \/ ExecuteStatement
    \/ MatchState
    \/ InsertError
    \/ ReturnInserted

\* ------------------------------------------------------------------------
\* Specifications
\* ------------------------------------------------------------------------

StageIdle ==
    WorkerInit /\ KeyIdle /\ DumpIdle /\ ReportIdle /\ GitIdle /\ ExportIdle

InitFetch == FetchInit /\ MergeIdle /\ LedgerInit /\ StageIdle

\* the index-diff stage within one calendar day
SpecFetch == InitFetch /\ [][NextFetch]_vars

NextFetchDays ==
    \/ NextFetch
    \/ DayRollover

\* the index-diff stage across midnights
SpecFetchDays == InitFetch /\ [][NextFetchDays]_vars

InitMerge == MergeInit /\ FetchInit /\ LedgerInit /\ StageIdle

\* merge_with on every triple of task states
SpecMerge == InitMerge /\ [][NextMerge]_vars

InitLedger == LedgerInit /\ FetchInit /\ MergeIdle /\ StageIdle

\* writes to one task key
SpecLedger == InitLedger /\ [][NextLedger]_vars

InitWorker ==
    /\ WorkerInit /\ FetchInit /\ MergeIdle /\ LedgerInit /\ KeyIdle /\ DumpIdle /\ ReportIdle /\ GitIdle
    /\ ExportIdle

\* two workers and one task key, across one restart of the process
SpecWorker == InitWorker /\ [][NextWorker]_vars

InitKey ==
    /\ KeyInit /\ FetchInit /\ MergeIdle /\ LedgerInit /\ WorkerInit /\ DumpIdle /\ ReportIdle /\ GitIdle
    /\ ExportIdle

\* the keys of every task and task result
SpecKey == InitKey /\ [][NextKey]_vars

InitDump ==
    /\ DumpInit /\ FetchInit /\ MergeIdle /\ LedgerInit /\ WorkerInit /\ KeyIdle /\ ReportIdle /\ GitIdle
    /\ ExportIdle

\* the DB-dump stage on every row of today's task
SpecDump == InitDump /\ [][NextDump]_vars

InitReport ==
    /\ ReportInit /\ FetchInit /\ MergeIdle /\ LedgerInit
    /\ WorkerInit /\ KeyIdle /\ DumpIdle /\ GitIdle /\ ExportIdle

\* the report stage on every table size tried
SpecReport == InitReport /\ [][NextReport]_vars

InitGit ==
    /\ GitInit /\ FetchInit /\ MergeIdle /\ LedgerInit
    /\ WorkerInit /\ KeyIdle /\ DumpIdle /\ ReportIdle /\ ExportIdle

\* the write policies under every kind of report directory
SpecGit == InitGit /\ [][NextGit]_vars

InitExport ==
    /\ ExportInit /\ FetchInit /\ MergeIdle /\ LedgerInit
    /\ WorkerInit /\ KeyIdle /\ DumpIdle /\ ReportIdle /\ GitIdle

\* the export of one task under every key it may be stored under
SpecExport == InitExport /\ [][NextExport]_vars

\* the db dump stage where a task that can run is run: trigger on the executor
\* and the processor on the tokio runtime
SpecDumpFair == InitDump /\ [][NextDump]_vars /\ WF_vars(NextDump)

\* the report stage where a task or thread that can run is run
SpecReportFair == InitReport /\ [][NextReport]_vars /\ WF_vars(NextReport)

\* ------------------------------------------------------------------------
\* Properties of the index-diff stage
\* ------------------------------------------------------------------------

RowsWritten(change) ==
    LET version == CrateVersionFrom(change)
    IN  /\ <<version.name, KEY_SEP_CHAR, version.version>> \in DOMAIN versionsTable
        /\ <<version.name>> \in DOMAIN cratesTable
        /\ Contains(cratesTable[<<version.name>>].versions, version.version)

\* C1: whenever the persisted cursor equals the reference a run fetched, every
\* change of that fetch has had its CrateVersion insert and its Crate upsert:
\* the cursor write comes after all row writes of the run.
C1_CursorAfterRows ==
    (pc # "idle" /\ crate_versions # <<>> /\ cursor = last_seen_git_object) =>
        /\ versions_stored = Len(crate_versions)
        /\ Len(upsert_lens) = Len(crate_versions)
        /\ \A i \in 1..Len(crate_versions) : RowsWritten(crate_versions[i])

\* a run of two changes or more has written its cursor
C1_Witness ==
    /\ pc = "update_today"
    /\ Len(crate_versions) >= 2
    /\ cursor = last_seen_git_object

\* C2: once a CrateVersion insert or a Crate upsert of a run has failed, the run
\* has returned an error, the cursor has the value it had when the run started
\* and no Context record differs from what it was when the run started.
C2_ErrorKeepsCursor ==
    write_failed =>
        /\ pc = "done"
        /\ result = "err"
        /\ cursor = start_cursor
        /\ contextTable = start_context

\* a later run fails after it has written rows
C2_Witness ==
    /\ write_failed
    /\ versions_stored >= 1
    /\ cursor > 0
    /\ contextTable # EmptyTable

Last(S) == CHOOSE i \in S : \A j \in S : j <= i

\* one row per (name, version), holding the last change to that version
IdealVersions(changes) ==
    LET keyOf(c) == <<c.name, KEY_SEP_CHAR, c.version>>
        keys == {keyOf(changes[i]) : i \in 1..Len(changes)}
    IN  [k \in keys |->
            LET c == changes[Last({i \in 1..Len(changes) : keyOf(changes[i]) = k})]
            IN  [name |-> c.name, kind |-> c.kind, version |-> c.version]]

SortedSeqOf(S) ==
    CHOOSE s \in [1..Cardinality(S) -> S] :
        \A i, j \in 1..Cardinality(S) : i < j => SemverLess(s[i], s[j])

\* one row per name, holding every version of the name once, in semver order
IdealCrates(changes) ==
    LET keys == {<<changes[i].name>> : i \in 1..Len(changes)}
    IN  [k \in keys |->
            [versions |-> SortedSeqOf({changes[i].version :
                                         i \in {j \in 1..Len(changes) : changes[j].name = k[1]}})]]

\* C3: a run that follows a run stopped after some of its row writes (a crash, or
\* a failed write) and that writes the cursor leaves the two row tables equal to
\* the tables of an uninterrupted pass over the changes up to the cursor: one
\* CrateVersion row per (name, version), every version once in Crate.versions.
C3_CrashReplayIdempotent ==
    (replay /\ pc \in {"update_today", "done"} /\ result # "err") =>
        /\ versionsTable = IdealVersions(SubSeq(remote, 1, cursor))
        /\ cratesTable = IdealCrates(SubSeq(remote, 1, cursor))

\* a replay of two changes or more is complete
C3_Witness ==
    /\ replay
    /\ pc = "done"
    /\ result = "ok"
    /\ Len(crate_versions) >= 2

\* C4: a run that follows a successful run, with the remote head where that run
\* fetched it, gets no change, counts nothing, adds nothing to any day's Context
\* counts, leaves both row tables as they were and the cursor where it was.
C4_SecondRunNoop ==
    noop_run =>
        /\ crate_versions = <<>>
        /\ new_crate_versions = 0
        /\ new_crates = 0
        /\ cursor = start_cursor
        /\ <<versionsTable, cratesTable>> = start_tables
        /\ \A d \in Days : CountsOf(contextTable, d) = CountsOf(start_context, d)

\* a second run over a store that holds rows is complete
C4_Witness ==
    /\ noop_run
    /\ pc = "done"
    /\ result = "ok"
    /\ cursor > 0
    /\ CountsOf(contextTable, today).crate_versions > 0

C5_CountsStep ==
    (pc = "update_today" /\ pc' = "done") =>
        LET firsts == {i \in 1..Len(upsert_lens) : upsert_lens[i] = 1}
        IN  /\ Len(upsert_lens) = Len(crate_versions)
            /\ new_crate_versions = Len(crate_versions)
            /\ new_crates = Cardinality(firsts)
            /\ CountsOf(contextTable', today).crate_versions =
                   CountsOf(contextTable, today).crate_versions + Len(crate_versions)
            /\ CountsOf(contextTable', today).crates =
                   CountsOf(contextTable, today).crates + Cardinality(firsts)

C5_Scenario ==
    (/\ ~faulted
     /\ pc = "done"
     /\ result = "ok"
     /\ Len(remote) >= 2
     /\ remote[1] = [name |-> "a", version |-> <<0, 1, 0>>, kind |-> "Added"]
     /\ remote[2] = [name |-> "b", version |-> <<0, 1, 0>>, kind |-> "Added"]) =>
        /\ cursor = 2 => CountsOf(contextTable, today) = [crate_versions |-> 2, crates |-> 2]
        /\ (/\ cursor = 3
            /\ remote[3] = [name |-> "a", version |-> <<0, 2, 0>>, kind |-> "Added"]) =>
                CountsOf(contextTable, today) = [crate_versions |-> 3, crates |-> 2]

\* C5: when a run updates today's Context, new_crate_versions is the number of
\* changes and new_crates the number of changes whose upsert returned a record
\* of exactly one version, and the update adds both to today's counts; from an
\* empty store a@0.1.0 and b@0.1.0 give {crates: 2, crate_versions: 2}, and a
\* following a@0.2.0 gives {crates: 2, crate_versions: 3}.
C5_Counts == [][C5_CountsStep]_vars /\ []C5_Scenario

\* the three changes of the scenario are stored and counted
C5_Witness ==
    /\ ~faulted
    /\ pc = "done"
    /\ result = "ok"
    /\ cursor = 3
    /\ remote = << [name |-> "a", version |-> <<0, 1, 0>>, kind |-> "Added"],
                   [name |-> "b", version |-> <<0, 1, 0>>, kind |-> "Added"],
                   [name |-> "a", version |-> <<0, 2, 0>>, kind |-> "Added"] >>
    /\ CountsOf(contextTable, today) = [crate_versions |-> 3, crates |-> 2]

C7_Step ==
    today' = today =>
        /\ CountsOf(contextTable', today).crates >= CountsOf(contextTable, today).crates
        /\ CountsOf(contextTable', today).crate_versions >=
               CountsOf(contextTable, today).crate_versions

\* C7: while the calendar day stays the same, no step lowers the crates count or
\* the crate_versions count of today's Context record.
C7_CountsNeverDecrease == [][C7_Step]_vars

\* a second update of the same day's record, which held counts already
C7_Witness ==
    /\ pc = "done"
    /\ result = "ok"
    /\ today = 2
    /\ new_crate_versions > 0
    /\ CountsOf(contextTable, today).crate_versions > new_crate_versions

\* ------------------------------------------------------------------------
\* Properties of the task ledger and of merge_with
\* ------------------------------------------------------------------------

AllowedTransitions ==
    { <<"NotStarted", "InProgress">>,
      <<"InProgress", "Complete">>,
      <<"InProgress", "AttemptsWithFailure">>,
      <<"AttemptsWithFailure", "InProgress">> }

\* C8 as stated: a ledger write changes the state of the row only along
\* NotStarted -> InProgress, InProgress -> Complete, InProgress ->
\* AttemptsWithFailure and AttemptsWithFailure -> InProgress, and never changes
\* a Complete row.
C8_OnlyListedTransitions ==
    task_prev.tag # task_state.tag =>
        <<task_prev.tag, task_state.tag>> \in AllowedTransitions

\* writes that follow the graph: InProgress onto NotStarted or
\* AttemptsWithFailure, Complete or AttemptsWithFailure onto InProgress
FollowsGraph(stored, written) ==
    \/ written.tag = "InProgress" /\ stored.tag \in {"NotStarted", "AttemptsWithFailure"}
    \/ written.tag \in {"Complete", "AttemptsWithFailure"} /\ stored.tag = "InProgress"

\* C8, amended: merge_with rejects no transition. After a write the row has the
\* variant of the state written, or the write panicked (InProgress(Some(_)) onto
\* AttemptsWithFailure) and the row is as it was; a Complete row becomes the
\* state written over it; the transitions are the four listed ones when every
\* write follows the graph.
C8_WrittenVariantWins ==
    task_writes > 0 =>
        IF task_panicked
        THEN /\ task_state = task_prev
             /\ task_prev.tag = "AttemptsWithFailure"
             /\ task_written.tag = "InProgress" /\ task_written.some
        ELSE /\ task_state.tag = task_written.tag
             /\ task_prev = Complete => task_state = task_written
             /\ FollowsGraph(task_prev, task_written) =>
                    <<task_prev.tag, task_state.tag>> \in AllowedTransitions

\* a Complete row has been replaced by InProgress(None)
C8_Witness ==
    /\ task_prev = Complete
    /\ task_state = InProgress(None)
    /\ ~task_panicked

\* the merge table of the ledger's fail operation, as specified
SpecMergeTable(self, other) ==
    IF self.tag = "AttemptsWithFailure" /\ other.tag = "AttemptsWithFailure"
    THEN AttemptsWithFailure(self.errors \o other.errors)
    ELSE IF self.tag = "InProgress" /\ self.some /\ other.tag = "AttemptsWithFailure"
    THEN AttemptsWithFailure(self.errors \o other.errors)
    ELSE other

\* C9 as stated: merge_with equals the three-row merge table for every pair.
C9_SpecTable == m_pc # "in" => m_ab = SpecMergeTable(m_a, m_b)

AmendedMergeTable(self, other) ==
    IF self.tag = "AttemptsWithFailure" /\ other = InProgress(None)
    THEN InProgress(Some(self.errors))
    ELSE IF self.tag = "AttemptsWithFailure" /\ other.tag = "InProgress"
    THEN Panic
    ELSE SpecMergeTable(self, other)

\* C9, amended: merge_with equals the merge table with two more rows:
\* (AttemptsWithFailure(xs), InProgress(None)) gives InProgress(Some(xs)) and
\* (AttemptsWithFailure(_), InProgress(Some(_))) panics; the three rows of the
\* table cover every other pair.
C9_AmendedTable == m_pc # "in" => m_ab = AmendedMergeTable(m_a, m_b)

\* a failed task with errors has been promoted, and two error lists appended
C9_Witness ==
    /\ m_pc = "bc"
    /\ m_a.tag = "AttemptsWithFailure" /\ m_a.errors # <<>>
    /\ m_b = InProgress(None)
    /\ m_ab = InProgress(Some(m_a.errors))
    /\ m_c.tag = "AttemptsWithFailure" /\ m_c.errors # <<>>
    /\ m_ab_c = AttemptsWithFailure(m_a.errors \o m_c.errors)

\* C10: on AttemptsWithFailure values, merging b then c into a gives the state
\* that merging (b merged with c) into a gives; merging Complete into any state
\* gives Complete, and merging Complete into that again gives Complete.
C10_MergeLaws ==
    /\ (/\ m_pc = "a_bc"
        /\ m_a.tag = "AttemptsWithFailure"
        /\ m_b.tag = "AttemptsWithFailure"
        /\ m_c.tag = "AttemptsWithFailure") =>
            /\ m_ab_c = m_a_bc
            /\ m_ab_c.tag = "AttemptsWithFailure"
            /\ Len(m_ab_c.errors) = Len(m_a.errors) + Len(m_b.errors) + Len(m_c.errors)
    /\ (m_pc # "in" /\ m_b = Complete) => m_ab = Complete
    /\ (m_pc \notin {"in", "ab"} /\ m_b = Complete /\ m_c = Complete) => m_ab_c = Complete

\* three different non-empty error lists have been merged both ways
C10_Witness ==
    /\ m_pc = "a_bc"
    /\ m_a = AttemptsWithFailure(<<"e1">>)
    /\ m_b = AttemptsWithFailure(<<"e2", "e1">>)
    /\ m_c = AttemptsWithFailure(<<"e2">>)
    /\ m_a_bc = AttemptsWithFailure(<<"e1", "e2", "e1", "e2">>)

\* Complete has been merged twice into a state that held errors
C10_WitnessComplete ==
    /\ m_pc = "a_bc"
    /\ m_a.errors # <<>>
    /\ m_b = Complete
    /\ m_c = Complete
    /\ m_ab_c = Complete

\* C11: a row in state InProgress(Some(errors)) comes from the promotion of a
\* stored AttemptsWithFailure(errors) alone: the write that left it carried
\* InProgress(None) onto AttemptsWithFailure(errors); a write of
\* InProgress(Some(_)) onto AttemptsWithFailure panics and leaves the row.
C11_PreloadedOnlyByPromotion ==
    /\ (task_writes > 0 /\ ~task_panicked /\ task_state.tag = "InProgress" /\ task_state.some) =>
          /\ task_prev.tag = "AttemptsWithFailure"
          /\ task_written = InProgress(None)
          /\ task_state.errors = task_prev.errors
    /\ (task_writes > 0 /\ task_prev.tag = "AttemptsWithFailure"
          /\ task_written.tag = "InProgress" /\ task_written.some) =>
          /\ task_panicked
          /\ task_state = task_prev

\* ------------------------------------------------------------------------
\* Properties of the workers' ledger operations
\* ------------------------------------------------------------------------

\* C12: while the process is not restarted, the states the row of a unit holds
\* are InProgress(None), then in turn AttemptsWithFailure and InProgress: the
\* j-th AttemptsWithFailure holds the errors of the first j failed attempts in
\* their order, the InProgress after it holds the same errors, and after k
\* failed attempts the success leaves Complete as state number 2k + 2.
C12_RetrySequence ==
    ~w_restarted =>
        /\ w_observed # <<>> => w_observed[1] = InProgress(None)
        /\ \A i \in 1..Len(w_observed) :
              LET st == w_observed[i]
              IN  /\ st # Panic
                  /\ i % 2 = 1 => st.tag = "InProgress"
                                  /\ (i - 1) \div 2 <= Len(w_failures)
                                  /\ st.errors = SubSeq(w_failures, 1, (i - 1) \div 2)
                                  /\ st.some = (i > 1)
                  /\ i % 2 = 0 =>
                        \/ st.tag = "AttemptsWithFailure"
                              /\ i \div 2 <= Len(w_failures)
                              /\ st.errors = SubSeq(w_failures, 1, i \div 2)
                        \/ st = Complete /\ i = Len(w_observed)
                                         /\ i = 2 * Len(w_failures) + 2

\* two attempts timed out with different errors, the third succeeded
C12_Witness ==
    /\ ~w_restarted
    /\ w_failures = <<"e1", "e2">>
    /\ w_observed = << InProgress(None),
                       AttemptsWithFailure(<<"e1">>),
                       InProgress(Some(<<"e1">>)),
                       AttemptsWithFailure(<<"e1", "e2">>),
                       InProgress(Some(<<"e1", "e2">>)),
                       Complete >>

\* C13: a claim that meets a row in state InProgress(None) returns Proceed when
\* the row's stored_at is before the startup time of the process and Skip when
\* it is after it; at most one worker of the running process is at work on the
\* key, and the row is InProgress while one is.
C13_DeadRowProceedsLiveRowSkips ==
    /\ (w_last.before # None /\ w_last.before[1].state = InProgress(None)) =>
          /\ w_last.before[1].stored_at < w_last.startup => w_last.outcome = "Proceed"
          /\ w_last.before[1].stored_at > w_last.startup => w_last.outcome = "Skip"
    /\ Cardinality({w \in Workers : w_pc[w] = "working"}) <= 1
    /\ (\E w \in Workers : w_pc[w] = "working") =>
          w_row # None /\ w_row[1].state.tag = "InProgress"

\* after a restart a dead InProgress(None) row was taken over, and the claim of
\* the other worker on the refreshed row was turned away
C13_Witness ==
    /\ w_restarted
    /\ w_reclaimed
    /\ Len(w_observed) = 2
    /\ w_observed[1] = InProgress(None)
    /\ w_observed[2] = InProgress(None)
    /\ w_last.outcome = "Skip"
    /\ w_last.before # None
    /\ w_last.before[1].state = InProgress(None)
    /\ w_last.before[1].stored_at > w_last.startup
    /\ \E w \in Workers : w_pc[w] = "working" /\ w # w_last.worker

\* ------------------------------------------------------------------------
\* Properties of the keys
\* ------------------------------------------------------------------------

\* C14: the key of a Download result is the key of its task followed by the
\* separator ':' and the kind of the result, that is
\* name:version:process:processVersion:kind; the key of a None or ExplodedCrate
\* result is the key of its task.
C14_ResultKey ==
    k_pc = "result" =>
        /\ k_task_key = <<k_name, ":", k_version, ":", k_task.process, ":", k_task.version>>
        /\ k_result.tag = "Download" =>
              /\ k_result_key = k_task_key \o <<":", k_result.kind>>
              /\ Len(k_result_key) = Len(k_task_key) + 2
        /\ k_result.tag \in {"None", "ExplodedCrate"} => k_result_key = k_task_key

\* the key of a tar.gz download of b 0.2.0 is built
C14_Witness ==
    /\ k_pc = "result"
    /\ k_result = [tag |-> "Download", kind |-> "tar.gz"]
    /\ k_result_key = <<"b", ":", <<0, 2, 0>>, ":", "extract_crate", ":", "1.1.0", ":", "tar.gz">>

\* ------------------------------------------------------------------------
\* Properties of the DB-dump stage
\* ------------------------------------------------------------------------

\* C15: trigger sends a DownloadRequest for today's key exactly when today's
\* row is absent, or can be started relative to the startup time, or is
\* Complete: it sends at most one, none before the row is read, one once it is
\* past the send when the row is admitted, and none, with no ingestion, when
\* the row is a live InProgress row or a failed row that cannot be started
\* (trigger then returns Ok, or the error of opening the tasks). A Complete row
\* is admitted whatever its stored_at.
C15_RequestIffAdmitted ==
    LET admitted == \/ d_row = None
                    \/ can_be_started(d_row[1], d_startup)
                    \/ d_row[1].state = Complete
    IN  /\ d_sent <= 1
        /\ d_ingestions <= d_sent
        /\ d_sent = 1 => admitted
        /\ d_pc \in {"drop", "recv", "entries"} => d_sent = 1
        /\ (d_pc = "done" /\ d_result # "err" /\ admitted) => d_sent = 1
        /\ ~admitted => d_sent = 0 /\ d_ingestions = 0 /\ d_io = <<>>
        /\ (d_pc = "done" /\ ~admitted) => d_result \in {"ok", "err"}
        /\ d_pc \in {"start", "get", "send"} => d_sent = 0

\* a Complete row stored after the startup time was admitted, and the archive
\* its request brought was ingested
C15_Witness ==
    /\ d_row = Some(Task(2, Complete))
    /\ d_sent = 1
    /\ d_ingestions = 1
    /\ d_pc = "done"
    /\ d_result = "ok"
HasCsv(archive, stem) ==
    \E i \in 1..Len(archive) : archive[i] = [stem |-> stem, ext |-> "csv"]

\* C16: once extract_and_ingest has read every entry of the archive, it returns
\* a Bug error and builds no actors exactly when the archive has no users.csv
\* or no teams.csv entry; with both it returns Ok and builds the actors, whether
\* or not another whitelisted CSV is there and whatever other entries are
\* there: every entry is counted, those outside the whitelist are not parsed.
\* It returns another error only when reading or parsing an entry failed.
C16_UsersAndTeamsRequired ==
    (d_pc = "done" /\ d_ingestions = 1) =>
        LET missing == ~HasCsv(d_archive, "users") \/ ~HasCsv(d_archive, "teams")
        IN  /\ d_result \in {"ok", "err", "bug_users", "bug_teams"}
            /\ d_result = "err" <=> d_pos < Len(d_archive)
            /\ d_result # "err" =>
                  /\ d_num_files_seen = Len(d_archive)
                  /\ d_result \in {"bug_users", "bug_teams"} <=> missing
                  /\ d_result = "bug_users" <=> ~HasCsv(d_archive, "users")
                  /\ d_result = "ok" <=> ~missing
                  /\ d_actors <=> ~missing
            /\ d_result = "err" => ~d_actors
            /\ \A i \in 1..Len(d_parsed) :
                  d_parsed[i] \in whitelist_names /\ HasCsv(d_archive, d_parsed[i])
            /\ Len(d_parsed) =
                  Cardinality({i \in 1..d_pos : d_archive[i].ext = "csv"
                                                /\ d_archive[i].stem \in whitelist_names})

\* an archive with users.csv, a CSV outside the whitelist and users.md, without
\* teams.csv: all three entries counted, one parsed, a Bug returned
C16_Witness ==
    /\ d_pc = "done"
    /\ d_ingestions = 1
    /\ d_archive = << [stem |-> "users", ext |-> "csv"],
                      [stem |-> "badges", ext |-> "csv"],
                      [stem |-> "users", ext |-> "md"] >>
    /\ d_num_files_seen = 3
    /\ d_parsed = <<"users">>
    /\ d_result = "bug_teams"
    /\ ~d_actors

\* an archive of users.csv and teams.csv and an entry outside the whitelist is
\* ingested without crates.csv
C16_WitnessOk ==
    /\ d_pc = "done"
    /\ d_archive = << [stem |-> "badges", ext |-> "csv"],
                      [stem |-> "teams", ext |-> "csv"],
                      [stem |-> "users", ext |-> "csv"] >>
    /\ d_result = "ok"
    /\ d_actors

\* ------------------------------------------------------------------------
\* Properties of the report stage
\* ------------------------------------------------------------------------

RECURSIVE SumLen(_, _)
\* the rows held by the first k chunks dispatched
SumLen(chunks, k) == IF k = 0 THEN 0 ELSE SumLen(chunks, k - 1) + chunks[k].len

\* the lengths of the chunks dispatched, in order
ChunkLens == [i \in 1..Len(r_dispatched) |-> r_dispatched[i].len]

\* generate has left its loop by the break
LoopEnded == r_pc \in {"drop", "await_merge", "join"} \/ r_result = "ok"

C18_TerminatesForEveryTableSize ==
    ~r_deadline =>
        /\ r_result # "panic"
        /\ r_chunk_size > 0 => r_cid <= (r_num_crates \div r_chunk_size) + 1

\* ------------------------------------------------------------------------
\* Properties of the write policies
\* ------------------------------------------------------------------------

\* the requests of the calls that did not return an error and whose policy
\* sends, in the order of the calls
SentByLog ==
    LET ok(e) == e.ret.tag # "Message" /\ g_policy # "not_available"
        kept == SelectSeq(g_log, ok)
    IN  [i \in 1..Len(kept) |-> kept[i].req]

\* C19: not_available sends nothing and returns DoWrite(req);
\* repo_with_working_dir sends a copy of the request and returns DoWrite(req);
\* repo_bare sends the request and returns Skip; a call whose send failed
\* returns the Message error, no instruction, and the channel took nothing;
\* every call that returned an instruction had its request taken by the git
\* channel or handed back for the direct write.
C19_WritePolicies ==
    /\ g_accepted = SentByLog
    /\ \A i \in 1..Len(g_log) :
          LET e == g_log[i]
          IN  /\ g_policy = "not_available" => e.ret = DoWrite(e.req)
              /\ g_policy = "repo_with_working_dir" =>
                    e.ret = IF e.gone THEN CouldNotSend ELSE DoWrite(e.req)
              /\ g_policy = "repo_bare" =>
                    e.ret = IF e.gone THEN CouldNotSend ELSE Skip
              /\ e.ret.tag \in {"DoWrite", "Skip"} =>
                    \/ e.ret = DoWrite(e.req)
                    \/ \E j \in 1..Len(g_accepted) : g_accepted[j] = e.req
    /\ g_policy = "not_available" => g_accepted = <<>> /\ g_chan = <<>>
    /\ g_rx => Len(g_accepted) = g_seen + Len(g_chan)

\* a bare repository: one request was sent and skipped, then the git thread
\* was gone and the next call returned the error
C19_Witness ==
    /\ g_policy = "repo_bare"
    /\ Len(g_log) = 2
    /\ g_log[1].ret = Skip
    /\ g_log[2].gone
    /\ g_log[2].ret = CouldNotSend
    /\ g_accepted = <<g_log[1].req>>

\* ------------------------------------------------------------------------
\* Properties of the SQL export
\* ------------------------------------------------------------------------

\* the task_errors rows insert is to write for a state
ErrorRowsOf(state) ==
    IF ErrorsToInsert(state) = None THEN <<>>
    ELSE [i \in 1..Len(state.errors) |-> [parent_task |-> x_uid, error |-> state.errors[i]]]

\* what insert wrote once it is past the key: a tasks row with the name of the
\* variant, the error rows in order, the Bug error without a secondary statement
InsertedRows ==
    /\ x_pc \in {"match", "errors"} \/ x_result \in {"ok", "bug"} =>
          /\ Len(x_tasks) = 1
          /\ x_tasks[1].state = x_task.state.tag
          /\ x_tasks[1].state \in
                {"NotStarted", "Complete", "InProgress", "AttemptsWithFailure"}
    /\ x_result = "ok" => x_task_errors = ErrorRowsOf(x_task.state)
    /\ ErrorsToInsert(x_task.state) = None => x_task_errors = <<>>
    /\ x_task_errors = SubSeq(ErrorRowsOf(x_task.state), 1, Len(x_task_errors))
    /\ x_result = "bug" <=>
          x_pc = "done" /\ x_tasks # <<>> /\ ~x_sstm
              /\ ErrorsToInsert(x_task.state) # None

\* C20: insert writes one tasks row whose state column is the name of the
\* variant, one task_errors row per error, in order, when the state is
\* InProgress(Some(errors)) or AttemptsWithFailure(errors) and none otherwise,
\* and returns the Bug error when such a state comes without a secondary
\* statement: an insert that has ended either returned a statement's error or
\* wrote that row.
C20_InsertWritesTaskAndErrorRows ==
    /\ InsertedRows
    /\ (x_pc = "done" /\ x_result # "sql_error") => Len(x_tasks) = 1

\* ------------------------------------------------------------------------
\* Properties of the error history of a row
\* ------------------------------------------------------------------------

\* xs is the beginning of ys
IsPrefix(xs, ys) == Len(xs) <= Len(ys) /\ xs = SubSeq(ys, 1, Len(xs))

\* C21: a claim that promotes AttemptsWithFailure(errors) stores
\* InProgress(Some(errors)), the same errors in the same order; a claim that
\* takes over a dead InProgress(prev) stores InProgress(prev) again; and from
\* one claim or fail to the next the stored error list is kept and errors are
\* only appended to it.
C21_ErrorHistoryKept ==
    \A i \in 1..(Len(w_observed) - 1) :
        LET old == w_observed[i]
            new == w_observed[i + 1]
        IN  /\ new # Panic
            /\ (old.tag = "AttemptsWithFailure" /\ new.tag = "InProgress") =>
                  new = InProgress(Some(old.errors))
            /\ (old.tag = "InProgress" /\ new.tag = "InProgress") => new = old
            /\ new.tag \in {"InProgress", "AttemptsWithFailure"} =>
                  IsPrefix(old.errors, new.errors)
            /\ (old.tag = "InProgress" /\ new.tag = "AttemptsWithFailure") =>
                  Len(new.errors) = Len(old.errors) + 1

\* a row that failed twice was promoted, left behind by a restart, taken over
\* with its two errors, and failed a third time
C21_Witness ==
    /\ w_restarted
    /\ w_reclaimed
    /\ Len(w_observed) = 7
    /\ w_observed[4] = AttemptsWithFailure(<<"e1", "e2">>)
    /\ w_observed[5] = InProgress(Some(<<"e1", "e2">>))
    /\ w_observed[6] = InProgress(Some(<<"e1", "e2">>))
    /\ w_observed[7] = AttemptsWithFailure(<<"e1", "e2", "e1">>)

\* ------------------------------------------------------------------------
\* Properties of the end of the db dump stage
\* ------------------------------------------------------------------------

\* what holds of trigger's channels at every step
TriggerSendsOnce ==
    /\ d_sent <= 1
    /\ Len(d_io) <= 1
    /\ d_ingestions <= 1
    /\ d_pc = "recv" => d_sent = 1 /\ ~d_tx_io
    /\ d_worker = "exited" => ~d_tx_io /\ ~d_tx_result /\ d_io = <<>>
    /\ d_ingestions = 1 => d_sent = 1
    /\ (d_pc = "done" /\ d_sent = 1 /\ d_ingestions = 0) =>
          d_result = "ok" /\ d_worker = "exited"

\* C22: trigger always returns; it sends at most one request, and when it has
\* sent one it has dropped the work sender before it waits; the processor
\* exits once the work channel is closed and empty, and the wait ends with a
\* path, after which the ingestion runs once, or with the end of the stream,
\* after which trigger returns Ok without ingesting.
C22_TriggerTerminates ==
    /\ <>(d_pc = "done")
    /\ <>(d_worker \in {"none", "exited"})
    /\ []TriggerSendsOnce

\* the request was sent, the processor had no path to send and exited, and
\* trigger returned Ok without ingesting
C22_Witness ==
    /\ d_pc = "done"
    /\ d_sent = 1
    /\ d_worker = "exited"
    /\ d_ingestions = 0
    /\ d_result = "ok"

\* ------------------------------------------------------------------------
\* Properties of the channels of the report stage
\* ------------------------------------------------------------------------

\* the processors that run a job
Busy == {w \in ProcessorIds : r_workers[w] \notin {Idle, Exited}}

\* the chunk jobs dispatched whose result no processor has sent yet
Unfinished == Len(r_dispatched) - Len(r_results) - Cardinality(r_merged)

\* C23: the work channel holds at most one chunk job and the result channel at
\* most 2 * P results; the driver cannot send while the work channel is full;
\* the chunk jobs dispatched and not yet finished by a processor are those in
\* the work channel and those the processors run, at most P + 1.
C23_ChannelBounds ==
    /\ Len(r_work) <= 1
    /\ Len(r_results) <= 2 * Processors
    /\ Len(r_work) = 1 => ~ENABLED SendChunk
    /\ Unfinished = Len(r_work) + Cardinality(Busy)
    /\ Unfinished <= Processors + 1

\* every processor runs a job, one more job waits in the work channel, and the
\* driver stands at its send with the next chunk
C23_Witness ==
    /\ r_pc = "send"
    /\ Len(r_work) = 1
    /\ Busy = ProcessorIds
    /\ Unfinished = Processors + 1
    /\ ~ENABLED SendChunk

\* the result channel is full and a processor waits to send
C23_WitnessResultsFull ==
    /\ Len(r_results) = 2 * Processors
    /\ Busy # {}

\* ------------------------------------------------------------------------
\* Properties of the shutdown of the report stage
\* ------------------------------------------------------------------------

\* generate is past its setup
Spawned == r_pc \notin {"count", "spawn"}

\* the order of the shutdown of a run that returned no error
ShutdownOrder ==
    (Spawned /\ r_result \in {"none", "ok"}) =>
        /\ r_pc \in {"fetch", "check", "send", "drop"} =>
              /\ r_tx
              /\ r_agg = "running"
              /\ r_git # "finished"
              /\ \A w \in ProcessorIds : r_workers[w] # Exited
        /\ (r_pc \in {"await_merge", "join"} \/ r_result = "ok") =>
              /\ ~r_tx
              /\ ~r_git_state
              /\ Len(r_dispatched) = r_cid
        /\ (\E w \in ProcessorIds : r_workers[w] = Exited) => ~r_tx /\ r_work = <<>>
        /\ r_agg = "done" =>
              /\ \A w \in ProcessorIds : r_workers[w] = Exited
              /\ r_results = <<>>
              /\ r_merged = 1..Len(r_dispatched)
        /\ r_git = "finished" => r_agg = "done" /\ ~r_git_state
        /\ (r_pc = "join" \/ r_result = "ok") => r_agg = "done"
        /\ r_result = "ok" => r_git \in {"none", "finished"}

\* C24: in a run that returns no error the driver drops git_state and the work
\* sender after the last chunk is dispatched; a processor exits only once the
\* work channel is closed and empty; merge_reports finishes only once every
\* processor has exited and every result is merged; the git thread ends only
\* once merge_reports has finished, and generate returns only after that; and
\* from the end of the loop on generate does return Ok: the join ends.
C24_ShutdownOrder ==
    /\ []ShutdownOrder
    /\ (r_pc = "drop") ~> (r_pc = "join")
    /\ (r_pc = "join") ~> (r_result = "ok")

\* a run over a git repository that dispatched three chunks and returned Ok
\* after the git thread had ended
C24_Witness ==
    /\ r_result = "ok"
    /\ r_git = "finished"
    /\ r_agg = "done"
    /\ Len(r_dispatched) = 3
    /\ r_merged = {1, 2, 3}
    /\ \A w \in ProcessorIds : r_workers[w] = Exited

\* ------------------------------------------------------------------------
\* Properties of the deadline of the report stage
\* ------------------------------------------------------------------------

\* a chunk job enters the work channel only while the deadline has not passed
DispatchBeforeDeadline == [][r_dispatched' # r_dispatched => ~r_expired']_vars

\* generate returned DeadlineExceeded: the chunk just fetched was not
\* dispatched and the work sender is dropped
DeadlineReturn ==
    r_result = "deadline_exceeded" =>
        /\ r_expired
        /\ ~r_tx
        /\ Len(r_dispatched) = r_cid - 1

\* after DeadlineExceeded every processor exits
DeadlineClosesWorkers ==
    (r_result = "deadline_exceeded") ~> (\A w \in ProcessorIds : r_workers[w] = Exited)

\* C25: no chunk job enters the work channel at a time now >= deadline; on
\* DeadlineExceeded generate returns the error without dispatching the chunk
\* just fetched, its work sender is dropped, and every processor exits.
C25_NoDispatchAfterDeadline ==
    /\ DispatchBeforeDeadline
    /\ []DeadlineReturn
    /\ DeadlineClosesWorkers

\* ------------------------------------------------------------------------
\* Properties of the keys of the SQL export
\* ------------------------------------------------------------------------

\* the keys the ledger stores a task under
LedgerKeys == {TaskFqKey(x_task, "a", ExportVersion), DumpTaskKey(ExportDay)}

\* C26: for a key built by Task::fq_key and for the key of the db dump task,
\* insert finds the three components it unwraps, finds no component after
\* them, and so gets past the key without a panic.
C26_LedgerKeysExport ==
    (x_key \in LedgerKeys /\ x_pc # "parse") =>
        /\ Len(Split(x_key)) >= 3
        /\ Len(Split(x_key)) <= 3
        /\ x_result # "panic"

\* ------------------------------------------------------------------------
\* Properties of the number of chunks of the report stage
\* ------------------------------------------------------------------------

\* a / b rounded up
CeilDiv(a, b) == (a + b - 1) \div b

\* C27: for every N >= 1 no chunk dispatched is empty, and once the loop has
\* ended the chunk jobs sent are ceil(N / chunk_size), also when N is a
\* multiple of chunk_size.
C27_NoEmptyChunk ==
    r_num_crates >= 1 =>
        /\ \A i \in 1..Len(r_dispatched) : r_dispatched[i].len > 0
        /\ (LoopEnded /\ r_chunk_size > 0) =>
              Len(r_dispatched) = CeilDiv(r_num_crates, r_chunk_size)

\* ------------------------------------------------------------------------
\* Properties of the count of new crates
\* ------------------------------------------------------------------------

\* the crates of the changes of this run that had no row when the run started
CratesNewInRun ==
    {key_from_version_buf(CrateVersionFrom(crate_versions[i])) : i \in 1..Len(crate_versions)}
        \ DOMAIN start_tables[2]

\* a step of fetch counts a crate as new only when its row was absent, and
\* the update of today's counts adds the crates that were absent
C28_Step ==
    /\ (pc = "upsert" /\ new_crates' = new_crates + 1) =>
          Get(cratesTable,
              key_from_version_buf(CrateVersionFrom(crate_versions[versions_stored + 1])))
              = None
    /\ (pc = "update_today" /\ pc' = "done") =>
          CountsOf(contextTable', today).crates =
              CountsOf(contextTable, today).crates + Cardinality(CratesNewInRun)

\* C28: counts.crates is increased for a change only if the Crates table had
\* no row for the crate before the change; a later change to a crate that has
\* a row, such as the yank of its only version or a change emitted again after
\* a crash, does not increase it.
C28_CountedNewOnce == [][C28_Step]_vars

================================================================================
